---- MODULE Spec2Model ----
(***************************************************************************)
(* league-history-collector: the Transformer                               *)
(* (src/league_history_collector/transformer/_impl.py) and the collector   *)
(* data model it consumes, its Configuration, the collectors' per-season   *)
(* aggregation, the CSV exporters, the player-id mapper of emit_csv.py and *)
(* the JSON form of a League.  Each part has its own specification; the    *)
(* variables of the other parts stay at their initial values.              *)
(*                                                                         *)
(* Python dicts whose iteration order can decide an outcome (seasons,      *)
(* weeks, standings) are sequences of key/value entries in insertion       *)
(* order; dicts whose order cannot (managers, the derived views) are       *)
(* functions.  A raised exception is a value: the operator's result        *)
(* carries the exception's class name in its err field.                    *)
(***************************************************************************)
EXTENDS Integers, Sequences, FiniteSets, TLC

VARIABLES
    league_data,      \* the caller's League, the object passed to Transformer()
    obj,              \* "none": no Transformer object exists; "live": one does
    args,             \* the arguments the live Transformer was constructed with
    shared,           \* TRUE iff self._data is the caller's own object graph
    _data,            \* self._data
    _transformed,     \* self._transformed
    _league_summary,  \* self._league_summary
    _games,           \* self._games
    _head_to_head,    \* self._head_to_head
    _seasons,         \* self._seasons
    _managers,        \* self._managers
    mutated,          \* the caller changed league_data after the construction
    given,            \* history: league_data as it was when __init__ was called
    completed,        \* history: some transform() call has returned normally
    ret,              \* what the last call returned or raised
    configuration,    \* a Configuration object
    playoff_query,    \* the last call on the Configuration and what it returned
    collected,        \* the League that set_season_data is called on
    overall_league_data,  \* run_collector's League, merged season by season
    collect_log,      \* history: the set_season_data calls and merges so far
    export_input,     \* the League and the id_mapper given to the exporters
    tables,           \* the CSV files, by name
    export_ret,       \* the last exporter call: its rows and what it raised
    export_runs,      \* history: how often each exporter has been called
    players_csv,      \* the rows of players.csv that emit_csv reads back
    player_mapping,   \* emit_csv's player_mapping, once loaded
    player_ret,       \* the last player_mapper call and what it returned
    saved_league,     \* the League that is written to JSON
    outfile,          \* the JSON document on disk
    reloaded,         \* what League.from_dict made of the document
    playoffs_input,   \* the winners bracket and team_to_manager of a Sleeper season
    standings_ret,    \* what _get_final_standings returned or raised
    week_input,       \* the matchups of a Sleeper week and team_to_manager
    week_ret,         \* what _get_games_for_week returned
    _logged_in,       \* NFLCollector._logged_in
    driver,           \* the web driver: the pages requested so far, in order
    site,             \* what fantasy.nfl.com did with the sign-in of the last call
    nfl_ret           \* the last public NFLCollector call and what it raised

views == <<_league_summary, _games, _head_to_head, _seasons, _managers>>

self == <<obj, args, shared, _data, _transformed, views>>

transformer_vars == <<league_data, self, mutated, given, completed, ret>>

config_vars == <<configuration, playoff_query>>

collect_vars == <<collected, overall_league_data, collect_log>>

export_vars == <<export_input, tables, export_ret, export_runs>>

mapper_vars == <<players_csv, player_mapping, player_ret>>

json_vars == <<saved_league, outfile, reloaded>>

standings_vars == <<playoffs_input, standings_ret>>

week_vars == <<week_input, week_ret>>

nfl_vars == <<_logged_in, driver, site, nfl_ret>>

vars == <<transformer_vars, config_vars, collect_vars, export_vars, mapper_vars, json_vars,
          standings_vars, week_vars, nfl_vars>>

not_transformer == <<config_vars, collect_vars, export_vars, mapper_vars, json_vars,
    standings_vars, week_vars, nfl_vars>>

not_config == <<transformer_vars, collect_vars, export_vars, mapper_vars, json_vars,
    standings_vars, week_vars, nfl_vars>>

not_collect == <<transformer_vars, config_vars, export_vars, mapper_vars, json_vars,
    standings_vars, week_vars, nfl_vars>>

not_export == <<transformer_vars, config_vars, collect_vars, mapper_vars, json_vars,
    standings_vars, week_vars, nfl_vars>>

not_mapper == <<transformer_vars, config_vars, collect_vars, export_vars, json_vars,
    standings_vars, week_vars, nfl_vars>>

not_json == <<transformer_vars, config_vars, collect_vars, export_vars, mapper_vars,
    standings_vars, week_vars, nfl_vars>>

not_standings == <<transformer_vars, config_vars, collect_vars, export_vars, mapper_vars,
                   json_vars, week_vars, nfl_vars>>

not_week == <<transformer_vars, config_vars, collect_vars, export_vars, mapper_vars,
              json_vars, standings_vars, nfl_vars>>

not_nfl == <<transformer_vars, config_vars, collect_vars, export_vars, mapper_vars,
             json_vars, standings_vars, week_vars>>

-----------------------------------------------------------------------------
(* Bounds of the inputs.                                                   *)

\* games in one week
MaxGames == 2

\* seasons in a League of the multi-season family
MaxSeasons == 2

\* set_season_data calls and merges in one run of the collection
MaxCalls == 3

\* calls of one exporter on the same file
MaxExports == 2

\* rows of players.csv
MaxPlayerRows == 3

\* calls of set_managers, set_players and set_drafts in one run
MaxTableRuns == 3

\* the largest rank a Configuration is asked about
MaxRank == 5

\* the rounds of a winners bracket
MaxRound == 3

-----------------------------------------------------------------------------
(* Exceptions and small helpers.                                           *)

NoError == "ok"

EmptyDict == [k \in {} |-> k]

Range(s) == {s[i] : i \in DOMAIN s}

None == "None"

-----------------------------------------------------------------------------
(* The collector data model.                                               *)

ManagerIds == {"1", "2", "3"}

Names == {"1", "2", "3", "Alice", "Bob"}

WeekNums == {1, 2}

\* models/roster.py: starters and bench; the Transformer only passes it on
Roster == [starters |-> <<>>, bench |-> <<>>]

\* collectors/models/manager.py
Manager(name, years) == [name |-> name, seasons |-> years]

\* models/game.py
TeamGameData(points, ms) == [points |-> points, managers |-> ms, roster |-> Roster]

Game(team_data) == [team_data |-> team_data]

\* collectors/models/week.py, as an entry of Season.weeks
Week(week_num, gs) == [week_num |-> week_num, games |-> gs]

\* collectors/models/season.py: one entry of Season.standings
ManagerStanding(mid, rank) == [mid |-> mid, final_rank |-> None, rank |-> rank]

\* collectors/models/season.py, as an entry of League.seasons
Season(year, standings, weeks) ==
    [year |-> year, standings |-> standings, weeks |-> weeks]

\* collectors/models/league.py
League(ms, ss) == [id |-> "league", managers |-> ms, seasons |-> ss]

-----------------------------------------------------------------------------
(* The Leagues the Transformer is given.  A League is loaded from JSON or  *)
(* built by a collector, so any value of the data model can arrive: games  *)
(* with zero to three sides, ids without a manager, equal names.           *)

IdOrder == <<"1", "2", "3">>

YearOrder == [i \in 1..MaxSeasons |-> 2019 + i]

\* the points of the i-th side of a game
SidePoints == <<100, 90, 80>>

\* a game by the sizes of its sides: the sides take the ids in IdOrder in turn
GameShapes == {<<>>, <<1>>, <<1, 1>>, <<2, 1>>, <<1, 2>>, <<1, 1, 1>>}

SmallShapes == {<<1>>, <<1, 1>>, <<2, 1>>}

RECURSIVE SumTo(_, _)
SumTo(shape, n) == IF n = 0 THEN 0 ELSE shape[n] + SumTo(shape, n - 1)

GameOfShape(shape) ==
    Game([i \in 1..Len(shape) |->
            TeamGameData(SidePoints[i],
                         [j \in 1..shape[i] |-> IdOrder[SumTo(shape, i - 1) + j]])])

SeqsUpTo(S, n) == UNION {[1..k -> S] : k \in 0..n}

GameLists(shapes, n) == SeqsUpTo({GameOfShape(sh) : sh \in shapes}, n)

\* sequences over S without a repeated element, of length 0..n
DistinctSeqs(S, n) ==
    {q \in SeqsUpTo(S, n) : \A i, j \in DOMAIN q : i # j => q[i] # q[j]}

\* how the managers of a League are named
Alias == [m \in ManagerIds |->
            CASE m = "1" -> "Alice" [] m = "2" -> "Bob" [] OTHER -> "Carol"]

Shift == [m \in ManagerIds |->
            CASE m = "1" -> "2" [] m = "2" -> "3" [] OTHER -> "1"]

NameSchemes == {[m \in ManagerIds |-> m], Alias, Shift}

SchemeManagers(D, scheme, years) == [m \in D |-> Manager(scheme[m], years)]

SchemeManagerMaps(yearLists) ==
    {SchemeManagers(D, scheme, years) :
        D \in {{"1", "2"}, ManagerIds}, scheme \in NameSchemes, years \in yearLists}

\* every naming of one or two managers, each with or without a season
FreeManagerMaps ==
    UNION {[D -> {Manager(n, ys) : n \in Names, ys \in {<<>>, <<2020>>}}] :
             D \in {{"1"}, {"1", "2"}}}

StandingLists ==
    {<<>>, <<ManagerStanding("1", 1)>>, <<ManagerStanding("3", 2)>>}

\* one season, no standings, every list of games in its one week
GameLeagues ==
    {League(ms, <<Season(2020, <<>>, ws)>>) :
        ms \in SchemeManagerMaps({<<>>}),
        ws \in {<<>>} \cup {<<Week(1, gs)>> : gs \in GameLists(GameShapes, MaxGames)}}

\* standings and managers' seasons lists, with no game or one
StandingLeagues ==
    {League(ms, <<Season(2020, st, ws)>>) :
        ms \in SchemeManagerMaps({<<>>, <<2020>>}),
        st \in StandingLists,
        ws \in {<<>>, <<Week(1, <<GameOfShape(<<1, 1>>)>>)>>}}

\* free manager names, no season
ManagerLeagues == {League(ms, <<>>) : ms \in FreeManagerMaps}

\* several seasons, or several weeks in one season, each holding one game
WalkLeagues ==
    LET ms == SchemeManagers(ManagerIds, [m \in ManagerIds |-> m], <<>>)
        gl == {q \in GameLists(SmallShapes, 1) : Len(q) = 1}
    IN  {League(ms, [i \in DOMAIN ys |-> Season(ys[i], <<>>, <<Week(1, g[i])>>)]) :
            ys \in DistinctSeqs(Range(YearOrder), MaxSeasons),
            g \in [1..MaxSeasons -> gl]}
        \cup
        {League(ms, <<Season(2020, <<>>,
                             [i \in DOMAIN ws |-> Week(ws[i], g[i])])>>) :
            ws \in DistinctSeqs(WeekNums, 2), g \in [1..2 -> gl]}

Leagues == GameLeagues \cup StandingLeagues \cup ManagerLeagues \cup WalkLeagues

-----------------------------------------------------------------------------
(* The callables a Transformer can be constructed with.                    *)

\* str.upper on the names in use
Upper(x) ==
    CASE x = "Alice" -> "ALICE" [] x = "Bob" -> "BOB" [] x = "Carol" -> "CAROL"
      [] OTHER -> x

Anonymizers == {"upper", "foo"}

Mappings == {"ident", "suffix", "const"}

\* anonymizer(name)
CallAnonymizer(anonymizer, name) ==
    IF anonymizer = "upper" THEN Upper(name) ELSE "FOO"

\* manager_id_mapping(manager_id)
CallMapping(manager_id_mapping, manager_id) ==
    CASE manager_id_mapping = "ident" -> manager_id
      [] manager_id_mapping = "suffix" -> manager_id \o "_mapped"
      [] OTHER -> "mapped"

-----------------------------------------------------------------------------
(* Configuration (lines 15-61).                                            *)

Configuration(num_playoff_teams, playoff_weeks) ==
    [num_playoff_teams |-> num_playoff_teams,
     playoff_weeks |-> playoff_weeks,
     num_playoff_teams_by_season |-> EmptyDict,
     playoff_teams |-> EmptyDict,
     playoff_weeks_by_season |-> EmptyDict]

\* dict.get(key, default)
DictGet(dct, key, default) == IF key \in DOMAIN dct THEN dct[key] ELSE default

\* variant of is_in_playoffs: the per-season cutoff is never looked up
is_in_playoffs_default_cutoff(config, manager_name, rank, season) ==
    LET playoff_teams == DictGet(config.playoff_teams, season, <<>>)
    IN  IF manager_name \in Range(playoff_teams) THEN TRUE
        ELSE IF Len(playoff_teams) > 0 THEN FALSE
        ELSE rank <= config.num_playoff_teams

is_in_playoffs(config, manager_name, rank, season) ==
    LET playoff_teams == DictGet(config.playoff_teams, season, <<>>)
    IN  IF manager_name \in Range(playoff_teams) THEN TRUE
        ELSE IF Len(playoff_teams) > 0 THEN FALSE
        ELSE rank <= DictGet(config.num_playoff_teams_by_season, season,
                             config.num_playoff_teams)

playoff_weeks_for_season(config, year) ==
    DictGet(config.playoff_weeks_by_season, year, config.playoff_weeks)

\* the configuration of the Transformer under study
TransformerConfig == Configuration(4, <<15, 16>>)

\* the seasons, manager names and ranks that a Configuration is asked about
ConfigSeasons == {2016, 2017, 2018}

ConfigNames == {"foo", "bar"}

Ranks == 1..MaxRank

\* the Configuration objects under study: each optional field left at its
\* default or given entries, an empty playoff_teams list included
Configurations ==
    {[Configuration(n, <<15, 16>>) EXCEPT !.num_playoff_teams_by_season = c,
                                          !.playoff_teams = t,
                                          !.playoff_weeks_by_season = w] :
        n \in {2, 4},
        c \in {EmptyDict, 2017 :> 2, 2017 :> 2 @@ 2018 :> 3},
        t \in {EmptyDict, 2018 :> <<"foo">>, 2018 :> <<"foo", "bar">>,
               2018 :> <<>>, 2017 :> <<"bar">>},
        w \in {EmptyDict, 2017 :> <<14, 15, 16>>}}

\* no call has been made on a Configuration
NoConfiguration ==
    /\ configuration = Configuration(4, <<15, 16>>)
    /\ playoff_query = [op |-> "none", manager_name |-> None, rank |-> 0,
                        season |-> 0, result |-> None]

-----------------------------------------------------------------------------
(* Transformer.__init__ (lines 72-140).                                    *)

\* variant of deepcopy: the object itself is kept, no copy is made
same_reference(x) == [val |-> x, same_object |-> TRUE]

\* copy.deepcopy: an equal value in a new object graph
deepcopy(x) == [val |-> x, same_object |-> FALSE]

\* the order in which league.managers is iterated
ManagerOrder(ms) == SelectSeq(IdOrder, LAMBDA m : m \in DOMAIN ms)

\* variant of NewName: the id mapping is fed the manager's name
NewNameFromName(anonymizer, manager_id_mapping, manager_id, manager) ==
    IF anonymizer # None THEN CallAnonymizer(anonymizer, manager.name)
    ELSE IF manager_id_mapping # None
         THEN CallMapping(manager_id_mapping, manager.name)
    ELSE manager.name

\* the name a manager gets in the branch that the arguments select
NewName(anonymizer, manager_id_mapping, manager_id, manager) ==
    IF anonymizer # None THEN CallAnonymizer(anonymizer, manager.name)
    ELSE IF manager_id_mapping # None THEN CallMapping(manager_id_mapping, manager_id)
    ELSE manager.name

\* variant of RenameManagers: the loop without the seen_names check
RECURSIVE RenameManagersUnchecked(_, _, _, _, _, _)
RenameManagersUnchecked(ms, order, seen_names, renamed, anonymizer, manager_id_mapping) ==
    IF order = <<>> THEN [err |-> NoError, managers |-> renamed]
    ELSE RenameManagersUnchecked(
            ms, Tail(order), seen_names,
            (Head(order) :> Manager(NewName(anonymizer, manager_id_mapping,
                                            Head(order), ms[Head(order)]),
                                    ms[Head(order)].seasons)) @@ renamed,
            anonymizer, manager_id_mapping)

\* the loop over self._data.managers.items() with its seen_names check
RECURSIVE RenameManagers(_, _, _, _, _, _)
RenameManagers(ms, order, seen_names, renamed, anonymizer, manager_id_mapping) ==
    IF order = <<>> THEN [err |-> NoError, managers |-> renamed]
    ELSE LET manager_id == Head(order)
             manager == ms[manager_id]
             new_name == NewName(anonymizer, manager_id_mapping, manager_id, manager)
         IN  IF new_name \in seen_names
             THEN [err |-> "RuntimeError", managers |-> ms]
             ELSE RenameManagers(ms, Tail(order), seen_names \cup {new_name},
                                 (manager_id :> Manager(new_name, manager.seasons))
                                     @@ renamed,
                                 anonymizer, manager_id_mapping)

\* variant of BothGiven: the parameter check is missing
NeverBothGiven(anonymizer, manager_id_mapping) == FALSE

\* the parameter check of lines 79-82
BothGiven(anonymizer, manager_id_mapping) ==
    anonymizer # None /\ manager_id_mapping # None

\* what __init__ does to the League it is given
TransformerInit(league, anonymizer, manager_id_mapping) ==
    IF BothGiven(anonymizer, manager_id_mapping)
    THEN [err |-> "ValueError", copied |-> FALSE, same_object |-> FALSE,
          data |-> league]
    ELSE LET copy == deepcopy(league)
             r == RenameManagers(copy.val.managers, ManagerOrder(copy.val.managers),
                                 {}, EmptyDict, anonymizer, manager_id_mapping)
         IN  [err |-> r.err, copied |-> TRUE, same_object |-> copy.same_object,
              data |-> [copy.val EXCEPT !.managers = r.managers]]

\* the placeholders of lines 133-138
EmptyLeagueSummary ==
    [regular_season_standings |-> EmptyDict, seasons_played |-> EmptyDict,
     total_regular_season_points_scored |-> EmptyDict,
     total_regular_season_record |-> EmptyDict, champions |-> EmptyDict,
     final_standings |-> EmptyDict, total_playoff_appearances |-> EmptyDict,
     total_playoff_points_scored |-> EmptyDict, total_playoff_record |-> EmptyDict]

Games(gs) == [games |-> gs]

HeadToHead(matchups) == [matchups |-> matchups]

Seasons(ss) == [seasons |-> ss]

Managers(ms) == [managers |-> ms]

NoArgs == [anonymizer |-> None, manager_id_mapping |-> None]

\* a call's outcome: the exception raised, if any; for __init__, whether
\* line 85 (the copy) was reached; for an accessor, which one was read
Result(op, accessor, err, copied) ==
    [op |-> op, accessor |-> accessor, err |-> err, copied |-> copied]

\* no Transformer has been constructed
NoTransformer ==
    /\ obj = "none"
    /\ args = NoArgs
    /\ shared = FALSE
    /\ _data = League(EmptyDict, <<>>)
    /\ _transformed = FALSE
    /\ _league_summary = EmptyLeagueSummary
    /\ _games = Games(EmptyDict)
    /\ _head_to_head = HeadToHead(EmptyDict)
    /\ _seasons = Seasons(EmptyDict)
    /\ _managers = Managers(EmptyDict)
    /\ mutated = FALSE
    /\ given = League(EmptyDict, <<>>)
    /\ completed = FALSE
    /\ ret = Result("none", None, NoError, FALSE)

\* no Transformer and no League to give to one
TransformerIdle ==
    /\ league_data = League(EmptyDict, <<>>)
    /\ NoTransformer

\* nothing has been collected
NoCollection ==
    /\ collected = League(EmptyDict, <<>>)
    /\ overall_league_data = League(EmptyDict, <<>>)
    /\ collect_log = <<>>

\* the files an exporter writes
FileNames == {"games.csv", "seasons.csv", "managers.csv", "players.csv", "drafts.csv"}

\* a file that does not exist
NoFile == [exists |-> FALSE, lines |-> <<>>]

\* no exporter has been called
NoExportCalls ==
    /\ tables = [f \in FileNames |-> NoFile]
    /\ export_ret = [op |-> "none", err |-> NoError, rows |-> <<>>, deduplicate |-> FALSE]
    /\ export_runs = [f \in FileNames |-> 0]

NoExport ==
    /\ export_input = [league |-> League(EmptyDict, <<>>), id_mapper |-> "ident"]
    /\ NoExportCalls

\* player_mapping before players.csv is read, and no player_mapper call
NoMapperCalls ==
    /\ player_mapping = [loaded |-> FALSE, ids |-> EmptyDict]
    /\ player_ret = [called |-> FALSE, p_id |-> "", p_name |-> "", p_pos |-> "",
                     assigned_id |-> ""]

NoMapper ==
    /\ players_csv = <<>>
    /\ NoMapperCalls

\* nothing written, nothing loaded
NoJsonCalls ==
    /\ outfile = [written |-> FALSE, doc |-> EmptyDict]
    /\ reloaded = [loaded |-> FALSE, err |-> NoError, league |-> League(EmptyDict, <<>>)]

NoJson ==
    /\ saved_league = League(EmptyDict, <<>>)
    /\ NoJsonCalls

\* no _get_final_standings call
NoStandingsCall == standings_ret = [called |-> FALSE, err |-> NoError, final_standings |-> EmptyDict]

NoStandings ==
    /\ playoffs_input = [playoffs_data |-> <<>>, team_to_manager |-> EmptyDict]
    /\ NoStandingsCall

\* no _get_games_for_week call
NoWeekCall == week_ret = [called |-> FALSE, games |-> <<>>]

NoWeek ==
    /\ week_input = [week_data |-> <<>>, team_to_manager |-> EmptyDict]
    /\ NoWeekCall

\* NFLCollector.__init__, line 86, with a driver that has requested nothing
NoNfl ==
    /\ _logged_in = FALSE
    /\ driver = <<>>
    /\ site = "none"
    /\ nfl_ret = [op |-> "none", calls |-> 0, err |-> NoError]

\* the collectors of the other specifications
CollectorsIdle ==
    /\ NoStandings
    /\ NoWeek
    /\ NoNfl

\* the parts that only the other specifications use
OthersIdle ==
    /\ NoMapper
    /\ NoJson
    /\ CollectorsIdle

Init ==
    /\ league_data \in Leagues
    /\ OthersIdle
    /\ NoTransformer
    /\ NoConfiguration
    /\ NoCollection
    /\ NoExport

\* Transformer(config, league_data, anonymizer, manager_id_mapping)
Construct(anonymizer, manager_id_mapping) ==
    /\ obj = "none"
    /\ LET r == TransformerInit(league_data, anonymizer, manager_id_mapping)
       IN  /\ ret' = Result("init", None, r.err, r.copied)
           /\ args' = [anonymizer |-> anonymizer,
                       manager_id_mapping |-> manager_id_mapping]
           /\ IF r.err = NoError
              THEN /\ obj' = "live"
                   /\ shared' = r.same_object
                   /\ _data' = r.data
                   /\ league_data' = IF r.same_object THEN r.data ELSE league_data
                   /\ given' = league_data
                   /\ UNCHANGED <<_transformed, views, mutated, completed>>
              ELSE UNCHANGED <<league_data, obj, shared, _data, _transformed, views,
                               mutated, given, completed>>
    /\ UNCHANGED not_transformer

-----------------------------------------------------------------------------
(* Transformer.transform (lines 202-318).                                  *)

\* dct[key] = value
DictSet(dct, key, value) ==
    [k \in DOMAIN dct \cup {key} |-> IF k = key THEN value ELSE dct[k]]

\* self._get_name_for_manager_id(team_id)
_get_name_for_manager_id(d, team_id) ==
    IF team_id \in DOMAIN d.managers
    THEN [err |-> NoError, name |-> d.managers[team_id].name]
    ELSE [err |-> "KeyError", name |-> None]

\* the shared_models.Game built at lines 254-266
GameWithNames(d, game) ==
    IF \E i \in DOMAIN game.team_data : \E j \in DOMAIN game.team_data[i].managers :
           _get_name_for_manager_id(d, game.team_data[i].managers[j]).err # NoError
    THEN [err |-> "KeyError", game |-> game]
    ELSE [err |-> NoError,
          game |-> Game([i \in DOMAIN game.team_data |->
                    [points |-> game.team_data[i].points,
                     managers |-> [j \in DOMAIN game.team_data[i].managers |->
                        _get_name_for_manager_id(
                            d, game.team_data[i].managers[j]).name],
                     roster |-> game.team_data[i].roster]])]

\* the check of lines 268-271
HasTwoSides(game) == Len(game.team_data) = 2

\* (first_manager, second_manager) in the order of the loops of lines 276-277
ManagerPairs(first_team, second_team) ==
    [k \in 1..(Len(first_team) * Len(second_team)) |->
        <<first_team[((k - 1) \div Len(second_team)) + 1],
          second_team[((k - 1) % Len(second_team)) + 1]>>]

\* variant of AppendMatchups: the mirrored append of lines 281-283 is missing
RECURSIVE AppendMatchupsOneWay(_, _, _)
AppendMatchupsOneWay(matchups, pairs, year_week) ==
    IF pairs = <<>> THEN [err |-> NoError, matchups |-> matchups]
    ELSE IF Head(pairs)[1] \notin DOMAIN matchups
            \/ Head(pairs)[2] \notin DOMAIN matchups
         THEN [err |-> "KeyError", matchups |-> matchups]
    ELSE AppendMatchupsOneWay(
            [matchups EXCEPT ![Head(pairs)[1]][Head(pairs)[2]] = Append(@, year_week)],
            Tail(pairs), year_week)

\* the body of the loops of lines 276-283, pair after pair
RECURSIVE AppendMatchups(_, _, _)
AppendMatchups(matchups, pairs, year_week) ==
    IF pairs = <<>> THEN [err |-> NoError, matchups |-> matchups]
    ELSE LET first_manager == Head(pairs)[1]
             second_manager == Head(pairs)[2]
         IN  IF first_manager \notin DOMAIN matchups
                \/ second_manager \notin DOMAIN matchups
             THEN [err |-> "KeyError", matchups |-> matchups]
             ELSE LET one == [matchups EXCEPT
                                ![first_manager][second_manager] = Append(@, year_week)]
                      two == [one EXCEPT
                                ![second_manager][first_manager] = Append(@, year_week)]
                  IN  AppendMatchups(two, Tail(pairs), year_week)

\* one pass of the loop over week.games (lines 253-283)
PopulateGame(d, year, week_num, game, acc) ==
    LET g == GameWithNames(d, game)
    IN  IF g.err # NoError THEN [acc EXCEPT !.err = g.err]
        ELSE IF ~HasTwoSides(game) THEN [acc EXCEPT !.err = "ValueError"]
        ELSE LET first_team == game.team_data[1].managers
                 second_team == game.team_data[2].managers
                 m == AppendMatchups(acc.matchups,
                                     ManagerPairs(first_team, second_team),
                                     <<year, week_num>>)
             IN  [err |-> m.err,
                  games |-> [acc.games EXCEPT ![year] = DictSet(@, week_num, g.game)],
                  matchups |-> m.matchups]

RECURSIVE PopulateGames(_, _, _, _, _)
PopulateGames(d, year, week_num, gs, acc) ==
    IF gs = <<>> \/ acc.err # NoError THEN acc
    ELSE PopulateGames(d, year, week_num, Tail(gs),
                       PopulateGame(d, year, week_num, Head(gs), acc))

RECURSIVE PopulateWeeks(_, _, _, _)
PopulateWeeks(d, year, weeks, acc) ==
    IF weeks = <<>> \/ acc.err # NoError THEN acc
    ELSE PopulateWeeks(d, year, Tail(weeks),
                       PopulateGames(d, year, Head(weeks).week_num,
                                     Head(weeks).games, acc))

\* lines 243-283
_populate_h2h_and_games_for_season(d, year, season, acc) ==
    PopulateWeeks(d, year, season.weeks,
                  [acc EXCEPT !.games = DictSet(@, year, EmptyDict)])

RECURSIVE PopulateSeasons(_, _, _)
PopulateSeasons(d, ss, acc) ==
    IF ss = <<>> \/ acc.err # NoError THEN acc
    ELSE PopulateSeasons(d, Tail(ss),
            _populate_h2h_and_games_for_season(d, Head(ss).year, Head(ss), acc))

ManagerNames(d) == {d.managers[m].name : m \in DOMAIN d.managers}

\* lines 217-238: on success the two views, else the exception
_set_games_and_h2h(d) ==
    LET start == [err |-> NoError, games |-> EmptyDict,
                  matchups |-> [a \in ManagerNames(d) |->
                                   [b \in ManagerNames(d) |-> <<>>]]]
    IN  PopulateSeasons(d, d.seasons, start)

\* models/record.py: Record(wins, losses, ties), no field has a default
Record(init_args) ==
    IF Len(init_args) = 3
    THEN [err |-> NoError,
          value |-> [wins |-> init_args[1], losses |-> init_args[2],
                     ties |-> init_args[3]]]
    ELSE [err |-> "TypeError", value |-> [wins |-> 0, losses |-> 0, ties |-> 0]]

\* the arguments of the Record built at line 317
PlayoffRecordArgs == <<>>

\* one pass of the loop of lines 306-318
PopulateStanding(d, config, year, standing, acc) ==
    LET n == _get_name_for_manager_id(d, standing.mid)
        made_playoffs == is_in_playoffs(config, n.name, standing.rank, year)
        playoff_weeks == playoff_weeks_for_season(config, year)
        playoff_record == Record(PlayoffRecordArgs)
    IN  IF n.err # NoError THEN [acc EXCEPT !.err = n.err]
        ELSE IF playoff_record.err # NoError
             THEN [acc EXCEPT !.err = playoff_record.err]
        ELSE [acc EXCEPT !.managers[n.name].seasons =
                DictSet(@, year,
                        [k \in {"year", "madePlayoffs", "playoffGames", "playoffRecord"}
                           |-> CASE k = "year" -> year
                                 [] k = "madePlayoffs" -> made_playoffs
                                 [] k = "playoffGames" -> playoff_weeks
                                 [] OTHER -> playoff_record.value])]

\* lines 299-318
RECURSIVE _populate_manager_results(_, _, _, _, _)
_populate_manager_results(d, config, year, standings, acc) ==
    IF standings = <<>> \/ acc.err # NoError THEN acc
    ELSE _populate_manager_results(d, config, year, Tail(standings),
            PopulateStanding(d, config, year, Head(standings), acc))

RECURSIVE PopulateManagers(_, _, _, _)
PopulateManagers(d, config, ss, acc) ==
    IF ss = <<>> \/ acc.err # NoError THEN acc
    ELSE PopulateManagers(d, config, Tail(ss),
            _populate_manager_results(d, config, Head(ss).year,
                                      Head(ss).standings, acc))

\* transformer/models/manager.py: the fields of ManagerSeason, none with a
\* default, under their JSON names
ManagerSeasonFields ==
    {"year", "finalStanding", "madePlayoffs", "playoffGames", "playoffRecord",
     "consolationGames", "regularSeasonGames", "regularSeasonPointsAgainst",
     "regularSeasonPointsScored", "regularSeasonRecord", "regularSeasonStanding"}

\* Managers.from_dict (line 297): a season entry that lacks a field of
\* ManagerSeason cannot be decoded
ManagersFromDict(managers_result) ==
    IF \E n \in DOMAIN managers_result :
         \E y \in DOMAIN managers_result[n].seasons :
            ~(ManagerSeasonFields \subseteq DOMAIN managers_result[n].seasons[y])
    THEN [err |-> "KeyError", managers |-> Managers(EmptyDict)]
    ELSE [err |-> NoError, managers |-> Managers(managers_result)]

\* lines 285-297
_set_managers(d, config) ==
    LET start ==
          [err |-> NoError,
           managers |->
             [n \in ManagerNames(d) |->
                [seasons |->
                   LET m == CHOOSE m \in DOMAIN d.managers : d.managers[m].name = n
                   IN  [y \in Range(d.managers[m].seasons) |-> EmptyDict]]]]
        r == PopulateManagers(d, config, d.seasons, start)
    IN  IF r.err # NoError THEN [err |-> r.err, managers |-> Managers(EmptyDict)]
        ELSE ManagersFromDict(r.managers)

\* the fields of the Transformer that transform() reads and writes
SelfState ==
    [data |-> _data, transformed |-> _transformed, games |-> _games,
     head_to_head |-> _head_to_head, managers |-> _managers]

\* variant of transform: the flag is set before the two passes run
transform_flag_first(t, config) ==
    IF t.transformed = TRUE THEN [err |-> NoError, self |-> t]
    ELSE LET g == _set_games_and_h2h(t.data)
             t0 == [t EXCEPT !.transformed = TRUE]
             t1 == [t0 EXCEPT !.games = Games(g.games),
                              !.head_to_head = HeadToHead(g.matchups)]
             m == _set_managers(t.data, config)
         IN  IF g.err # NoError THEN [err |-> g.err, self |-> t0]
             ELSE IF m.err # NoError THEN [err |-> m.err, self |-> t1]
             ELSE [err |-> NoError, self |-> [t1 EXCEPT !.managers = m.managers]]

\* variant of transform: a call on a transformed object starts over, putting
\* back the placeholders and the flag of __init__
transform_starting_over(t, config) ==
    IF t.transformed = TRUE
    THEN [err |-> NoError,
          self |-> [t EXCEPT !.transformed = FALSE, !.games = Games(EmptyDict),
                             !.head_to_head = HeadToHead(EmptyDict),
                             !.managers = Managers(EmptyDict)]]
    ELSE LET g == _set_games_and_h2h(t.data)
             t1 == [t EXCEPT !.games = Games(g.games),
                             !.head_to_head = HeadToHead(g.matchups)]
             m == _set_managers(t.data, config)
         IN  IF g.err # NoError THEN [err |-> g.err, self |-> t]
             ELSE IF m.err # NoError THEN [err |-> m.err, self |-> t1]
             ELSE [err |-> NoError,
                   self |-> [t1 EXCEPT !.managers = m.managers,
                                       !.transformed = TRUE]]

\* transform() (lines 202-215): the exception raised, if any, and the fields
\* as the call leaves them
transform(t, config) ==
    IF t.transformed = TRUE THEN [err |-> NoError, self |-> t]
    ELSE LET g == _set_games_and_h2h(t.data)
             t1 == [t EXCEPT !.games = Games(g.games),
                             !.head_to_head = HeadToHead(g.matchups)]
             m == _set_managers(t.data, config)
         IN  IF g.err # NoError THEN [err |-> g.err, self |-> t]
             ELSE IF m.err # NoError THEN [err |-> m.err, self |-> t1]
             ELSE [err |-> NoError,
                   self |-> [t1 EXCEPT !.managers = m.managers,
                                       !.transformed = TRUE]]

Transform ==
    /\ obj = "live"
    /\ LET r == transform(SelfState, TransformerConfig)
       IN  /\ ret' = Result("transform", None, r.err, FALSE)
           /\ _transformed' = r.self.transformed
           /\ _games' = r.self.games
           /\ _head_to_head' = r.self.head_to_head
           /\ _managers' = r.self.managers
           /\ completed' = (completed \/ r.err = NoError)
    /\ UNCHANGED <<league_data, obj, args, shared, _data, _league_summary,
                   _seasons, mutated, given>>
    /\ UNCHANGED not_transformer

-----------------------------------------------------------------------------
(* The derived-view accessors (lines 142-200).                             *)

Accessors == {"league_summary", "games", "head_to_head", "seasons", "managers"}

Property(view) ==
    IF _transformed = FALSE THEN [err |-> "RuntimeError", value |-> view]
    ELSE [err |-> NoError, value |-> view]

league_summary == Property(_league_summary)

games == Property(_games)

head_to_head == Property(_head_to_head)

seasons == Property(_seasons)

managers == Property(_managers)

Get(accessor) ==
    CASE accessor = "league_summary" -> league_summary
      [] accessor = "games" -> games
      [] accessor = "head_to_head" -> head_to_head
      [] accessor = "seasons" -> seasons
      [] OTHER -> managers

\* reading a property of the Transformer
Read(accessor) ==
    /\ obj = "live"
    /\ ret' = Result("read", accessor, Get(accessor).err, FALSE)
    /\ UNCHANGED <<league_data, self, mutated, given, completed>>
    /\ UNCHANGED not_transformer

-----------------------------------------------------------------------------
(* Collecting a season into a League: set_season_data of the Sleeper and   *)
(* NFL collectors (the same code in both) and the merge loop of nfl.py.    *)

\* what the source reports for a year: the managers of that year (id ->
\* display name) and the weeks played so far
Report(names, weeks) == [managers |-> names, weeks |-> weeks]

\* _get_managers(year): a fresh Manager(name, seasons=[year]) per manager
_get_managers(year, report) ==
    [m \in DOMAIN report.managers |-> Manager(report.managers[m], <<year>>)]

\* dict[year] = season on the insertion-ordered seasons dict
SetSeason(ss, year, season) ==
    IF \E i \in DOMAIN ss : ss[i].year = year
    THEN [i \in DOMAIN ss |-> IF ss[i].year = year THEN season ELSE ss[i]]
    ELSE Append(ss, season)

\* variant of UpsertManagers: a manager already present is left as it is
RECURSIVE UpsertManagersNoAppend(_, _, _, _)
UpsertManagersNoAppend(ms, order, year, found) ==
    IF order = <<>> THEN ms
    ELSE LET manager_id == Head(order)
         IN  IF manager_id \notin DOMAIN ms
             THEN UpsertManagersNoAppend((manager_id :> found[manager_id]) @@ ms,
                                         Tail(order), year, found)
             ELSE UpsertManagersNoAppend(ms, Tail(order), year, found)

\* the loop over managers.items(): insert the Manager when the id is new,
\* else append the year to the seasons list of the one already there
RECURSIVE UpsertManagers(_, _, _, _)
UpsertManagers(ms, order, year, found) ==
    IF order = <<>> THEN ms
    ELSE LET manager_id == Head(order)
         IN  IF manager_id \notin DOMAIN ms
             THEN UpsertManagers((manager_id :> found[manager_id]) @@ ms,
                                 Tail(order), year, found)
             ELSE UpsertManagers([ms EXCEPT ![manager_id].seasons = Append(@, year)],
                                 Tail(order), year, found)

\* the standings of the year, one entry per reported manager in dict order
StandingsOf(found) ==
    [i \in 1..Len(ManagerOrder(found)) |-> ManagerStanding(ManagerOrder(found)[i], i)]

\* variant of set_season_data: the seasons dict is started afresh
set_season_data_fresh_seasons(league, year, report) ==
    LET found == _get_managers(year, report)
    IN  [league EXCEPT
           !.seasons = <<Season(year, StandingsOf(found), report.weeks)>>,
           !.managers = UpsertManagers(@, ManagerOrder(found), year, found)]

\* collector.set_season_data(year, league): the League as the call leaves it
set_season_data(league, year, report) ==
    LET found == _get_managers(year, report)
    IN  [league EXCEPT
           !.seasons = SetSeason(@, year,
                                 Season(year, StandingsOf(found), report.weeks)),
           !.managers = UpsertManagers(@, ManagerOrder(found), year, found)]

\* one pass of the loop of run_collector: the season is collected into a
\* League of its own and then merged into overall_league_data
MergeSeason(overall, year, report) ==
    LET league == set_season_data(League(EmptyDict, <<>>), year, report)
        season == CHOOSE x \in Range(league.seasons) : x.year = year
    IN  [overall EXCEPT
           !.seasons = SetSeason(@, year, season),
           !.managers = UpsertManagers(@, ManagerOrder(league.managers), year,
                                       league.managers)]

-----------------------------------------------------------------------------
(* The caller goes on using its League after the construction, as the      *)
(* collectors do when a season is collected.                               *)

\* set_season_data on the caller's League for a further year in which the
\* source reports the managers the League already has
CollectSeason(league, year) ==
    set_season_data(league, year,
                    Report([m \in DOMAIN league.managers |-> league.managers[m].name],
                           <<>>))

\* manager.name = name, for every manager
RenameAll(league, name) ==
    [league EXCEPT !.managers = [m \in DOMAIN @ |-> Manager(name, @[m].seasons)]]

CallerChanges(league) == {CollectSeason(league, 2022), RenameAll(league, "Mallory")}

MutateInput ==
    /\ obj = "live"
    /\ mutated = FALSE
    /\ \E changed \in CallerChanges(league_data) :
         /\ league_data' = changed
         /\ _data' = IF shared THEN changed ELSE _data
    /\ mutated' = TRUE
    /\ ret' = Result("mutate", None, NoError, FALSE)
    /\ UNCHANGED <<obj, args, shared, _transformed, views, given, completed>>
    /\ UNCHANGED not_transformer

-----------------------------------------------------------------------------

Next ==
    \/ \E anonymizer \in Anonymizers \cup {None},
          manager_id_mapping \in Mappings \cup {None} :
         Construct(anonymizer, manager_id_mapping)
    \/ Transform
    \/ \E accessor \in Accessors : Read(accessor)
    \/ MutateInput

Spec == Init /\ [][Next]_vars

-----------------------------------------------------------------------------
(* The Configuration on its own: calls on one Configuration object.         *)

ConfigInit ==
    /\ TransformerIdle
    /\ OthersIdle
    /\ NoCollection
    /\ NoExport
    /\ configuration \in Configurations
    /\ playoff_query = [op |-> "none", manager_name |-> None, rank |-> 0,
                        season |-> 0, result |-> None]

\* config.is_in_playoffs(manager_name, rank=rank, season=season)
IsInPlayoffs(manager_name, rank, season) ==
    /\ playoff_query' = [op |-> "is_in_playoffs", manager_name |-> manager_name,
                         rank |-> rank, season |-> season,
                         result |-> is_in_playoffs(configuration, manager_name,
                                                   rank, season)]
    /\ UNCHANGED <<configuration, not_config>>

\* config.playoff_weeks_for_season(year)
PlayoffWeeksForSeason(year) ==
    /\ playoff_query' = [op |-> "playoff_weeks_for_season", manager_name |-> None,
                         rank |-> 0, season |-> year,
                         result |-> playoff_weeks_for_season(configuration, year)]
    /\ UNCHANGED <<configuration, not_config>>

ConfigNext ==
    \/ \E manager_name \in ConfigNames, rank \in Ranks, season \in ConfigSeasons :
         IsInPlayoffs(manager_name, rank, season)
    \/ \E year \in ConfigSeasons : PlayoffWeeksForSeason(year)

ConfigSpec == ConfigInit /\ [][ConfigNext]_vars

-----------------------------------------------------------------------------
(* Collection on its own: set_season_data calls on one League and the merge *)
(* loop of run_collector on another.                                        *)

CollectYears == {2020, 2021}

\* the display names the source has for the manager ids
SourceNames == [m \in {"1", "2"} |-> IF m = "1" THEN "Alice" ELSE "Bob"]

\* what the source may report for a year: some of the managers, and no week
\* or one week with one game
Reports ==
    {Report([m \in D |-> SourceNames[m]], w) :
        D \in (SUBSET DOMAIN SourceNames) \ {{}},
        w \in {<<>>, <<Week(1, <<GameOfShape(<<1, 1>>)>>)>>}}

\* the years run_collector has merged
MergedYears ==
    {collect_log[i].year : i \in {j \in DOMAIN collect_log :
                                     collect_log[j].op = "merge"}}

CollectInit ==
    /\ TransformerIdle
    /\ OthersIdle
    /\ NoConfiguration
    /\ NoCollection
    /\ NoExport

\* collector.set_season_data(year, collected)
SetSeasonData(year, report) ==
    /\ Len(collect_log) < MaxCalls
    /\ collected' = set_season_data(collected, year, report)
    /\ collect_log' = Append(collect_log, [op |-> "set_season_data", year |-> year,
                                           report |-> report])
    /\ UNCHANGED <<overall_league_data, not_collect>>

\* one pass of `for year in seasons` in run_collector; the years of the
\* seasons list differ from one another
RunCollectorStep(year, report) ==
    /\ Len(collect_log) < MaxCalls
    /\ year \notin MergedYears
    /\ overall_league_data' = MergeSeason(overall_league_data, year, report)
    /\ collect_log' = Append(collect_log, [op |-> "merge", year |-> year,
                                           report |-> report])
    /\ UNCHANGED <<collected, not_collect>>

CollectNext ==
    \/ \E year \in CollectYears, report \in Reports : SetSeasonData(year, report)
    \/ \E year \in CollectYears, report \in Reports : RunCollectorStep(year, report)

CollectSpec == CollectInit /\ [][CollectNext]_vars

-----------------------------------------------------------------------------
(* The CSV exporters set_games and set_season                              *)
(* (src/league_history_collector/transformer/csv).                         *)

\* variant of GameResults: equal points are not looked at (lines 55-57 missing)
GameResultsWithoutTie(first_points, second_points) ==
    <<IF first_points > second_points THEN "win" ELSE "loss",
      IF first_points < second_points THEN "win" ELSE "loss">>

\* lines 45-57 of game.py: the results of the first and of the second team
GameResults(first_points, second_points) ==
    IF first_points = second_points THEN <<"tie", "tie">>
    ELSE <<IF first_points > second_points THEN "win" ELSE "loss",
           IF first_points < second_points THEN "win" ELSE "loss">>

\* the dict appended at lines 64-74 and 81-91
GameRow(m_id, season_id, week_id, points_for, points_against, opp_id, result) ==
    [manager_id |-> m_id, season_id |-> season_id, week_id |-> week_id,
     points_for |-> points_for, points_against |-> points_against,
     opponent_id |-> opp_id, result |-> result]

\* the rows of one side: m_id over its managers, opp_id over the other side's
SideRows(side, other, season_id, week_id, result, id_mapper) ==
    LET pairs == ManagerPairs(side.managers, other.managers)
    IN  [k \in DOMAIN pairs |->
           GameRow(CallMapping(id_mapper, pairs[k][1]), season_id, week_id,
                   side.points, other.points,
                   CallMapping(id_mapper, pairs[k][2]), result)]

\* the body of `for game_id, game in enumerate(week.games)` (lines 30-91)
RowsOfGame(game, season_id, week_id, id_mapper) ==
    IF Len(game.team_data) # 2 THEN <<>>
    ELSE LET first_team_data == game.team_data[1]
             second_team_data == game.team_data[2]
             results == GameResults(first_team_data.points, second_team_data.points)
         IN  SideRows(first_team_data, second_team_data, season_id, week_id,
                      results[1], id_mapper)
             \o SideRows(second_team_data, first_team_data, season_id, week_id,
                         results[2], id_mapper)

RECURSIVE RowsOfGames(_, _, _, _)
RowsOfGames(gs, season_id, week_id, id_mapper) ==
    IF gs = <<>> THEN <<>>
    ELSE RowsOfGame(Head(gs), season_id, week_id, id_mapper)
         \o RowsOfGames(Tail(gs), season_id, week_id, id_mapper)

RECURSIVE RowsOfWeeks(_, _, _)
RowsOfWeeks(weeks, season_id, id_mapper) ==
    IF weeks = <<>> THEN <<>>
    ELSE RowsOfGames(Head(weeks).games, season_id, Head(weeks).week_num, id_mapper)
         \o RowsOfWeeks(Tail(weeks), season_id, id_mapper)

\* game_results as the loops of lines 26-91 leave it
RECURSIVE game_results(_, _)
game_results(ss, id_mapper) ==
    IF ss = <<>> THEN <<>>
    ELSE RowsOfWeeks(Head(ss).weeks, Head(ss).year, id_mapper)
         \o game_results(Tail(ss), id_mapper)

\* season_results as the loops of season.py lines 24-40 leave it
RECURSIVE season_results(_, _)
season_results(ss, id_mapper) ==
    IF ss = <<>> THEN <<>>
    ELSE [i \in DOMAIN Head(ss).standings |->
            [manager_id |-> CallMapping(id_mapper, Head(ss).standings[i].mid),
             season_id |-> Head(ss).year,
             regular_season_standing |-> Head(ss).standings[i].rank]]
         \o season_results(Tail(ss), id_mapper)

\* writer.writeheader(): the line of the field names
HeaderLine(fieldnames) == [fieldnames |-> fieldnames]

\* game.py lines 93-106 and season.py lines 42-55: open the file for
\* appending, take the field names from the first row, write the header if
\* the file did not exist before, write the rows
AppendRows(file, rows) ==
    LET write_header == ~file.exists
        fieldnames == DOMAIN rows[1]
    IN  IF rows = <<>>
        THEN [err |-> "IndexError", file |-> [exists |-> TRUE, lines |-> file.lines]]
        ELSE [err |-> NoError,
              file |-> [exists |-> TRUE,
                        lines |-> file.lines
                                  \o (IF write_header THEN <<HeaderLine(fieldnames)>> ELSE <<>>)
                                  \o rows]]

\* the sides of the games to export: 100 or 90 points, one or two managers
ExportSides ==
    {<<TeamGameData(p[1], ms[1]), TeamGameData(p[2], ms[2])>> :
        p \in {90, 100} \X {90, 100},
        ms \in {<<<<"1">>, <<"2">>>>, <<<<"1", "3">>, <<"2">>>>,
               <<<<"1">>, <<"2", "3">>>>}}

ExportGames ==
    {Game(td) : td \in ExportSides}
        \cup {Game(<<TeamGameData(100, <<"1">>)>>),
              Game(<<TeamGameData(100, <<"1">>), TeamGameData(90, <<"2">>),
                     TeamGameData(80, <<"3">>)>>)}

\* the Leagues to export: one week with up to two games and up to two
\* standings, or two seasons with a game each
ExportLeagues ==
    {League(EmptyDict, <<Season(2020, st, <<Week(1, gs)>>)>>) :
        gs \in SeqsUpTo(ExportGames, 2),
        st \in {<<>>, <<ManagerStanding("2", 1)>>,
               <<ManagerStanding("2", 1), ManagerStanding("1", 2)>>}}
    \cup
    {League(EmptyDict, <<Season(2020, <<>>, <<Week(1, <<g>>)>>),
                         Season(2021, <<ManagerStanding("1", 1)>>,
                                <<Week(1, <<>>), Week(2, <<g>>)>>)>>) :
        g \in ExportGames}

ExportInit ==
    /\ TransformerIdle
    /\ OthersIdle
    /\ NoConfiguration
    /\ NoCollection
    /\ export_input \in [league : ExportLeagues, id_mapper : {"ident", "suffix"}]
    /\ NoExportCalls

\* an exporter call on a file with the rows it has computed
Export(op, file_name, rows) ==
    /\ export_runs[file_name] < MaxExports
    /\ LET w == AppendRows(tables[file_name], rows)
       IN  /\ tables' = [tables EXCEPT ![file_name] = w.file]
           /\ export_ret' = [op |-> op, err |-> w.err, rows |-> rows, deduplicate |-> FALSE]
    /\ export_runs' = [export_runs EXCEPT ![file_name] = @ + 1]
    /\ UNCHANGED <<export_input, not_export>>

\* set_games("games.csv", league, id_mapper)
set_games ==
    Export("set_games", "games.csv",
           game_results(export_input.league.seasons, export_input.id_mapper))

\* set_season("seasons.csv", league, id_mapper)
set_season ==
    Export("set_season", "seasons.csv",
           season_results(export_input.league.seasons, export_input.id_mapper))

ExportNext ==
    \/ set_games
    \/ set_season

ExportSpec == ExportInit /\ [][ExportNext]_vars

-----------------------------------------------------------------------------
(* The player-id mapper of emit_csv (src/emit_csv.py, lines 61-83).        *)

PlayerIds == {"p1", "p2"}

PlayerNames == {"Ann", "Bob"}

PlayerPositions == {"QB", "RB"}

\* a row of players.csv
PlayerRow(player_id, player_name, player_position) ==
    [player_id |-> player_id, player_name |-> player_name,
     player_position |-> player_position]

\* lines 65-71: the ids seen for every (name, position) of the rows
LoadMapping(rows) ==
    LET tuples == {<<rows[i].player_name, rows[i].player_position>> : i \in DOMAIN rows}
    IN  [t \in tuples |->
           {rows[i].player_id :
              i \in {j \in DOMAIN rows : <<rows[j].player_name, rows[j].player_position>> = t}}]

\* variant of player_mapper: any known id is taken, also when several are known
player_mapper_any_known(mapping, p_id, p_name, p_pos) ==
    LET input_tuple == <<p_name, p_pos>>
        potential_ids == IF input_tuple \in DOMAIN mapping THEN mapping[input_tuple] ELSE {}
    IN  IF Cardinality(potential_ids) >= 1
        THEN CHOOSE assigned_id \in potential_ids : TRUE
        ELSE p_id

\* lines 73-83
player_mapper(mapping, p_id, p_name, p_pos) ==
    LET input_tuple == <<p_name, p_pos>>
        potential_ids == IF input_tuple \in DOMAIN mapping THEN mapping[input_tuple] ELSE {}
    IN  IF Cardinality(potential_ids) = 1
        THEN CHOOSE assigned_id \in potential_ids : TRUE
        ELSE p_id

MapperInit ==
    /\ TransformerIdle
    /\ NoConfiguration
    /\ NoCollection
    /\ NoExport
    /\ NoJson
    /\ CollectorsIdle
    /\ players_csv \in SeqsUpTo({PlayerRow(i, n, "QB") : i \in PlayerIds, n \in PlayerNames},
                                MaxPlayerRows)
    /\ NoMapperCalls

\* the `with open(players_csv ...)` block
LoadPlayerMapping ==
    /\ ~player_mapping.loaded
    /\ player_mapping' = [loaded |-> TRUE, ids |-> LoadMapping(players_csv)]
    /\ UNCHANGED <<players_csv, player_ret, not_mapper>>

\* a call of player_mapper by set_lineups or set_drafts
CallPlayerMapper(p_id, p_name, p_pos) ==
    /\ player_mapping.loaded
    /\ player_ret' = [called |-> TRUE, p_id |-> p_id, p_name |-> p_name, p_pos |-> p_pos,
                      assigned_id |-> player_mapper(player_mapping.ids, p_id, p_name, p_pos)]
    /\ UNCHANGED <<players_csv, player_mapping, not_mapper>>

MapperNext ==
    \/ LoadPlayerMapping
    \/ \E p_id \in PlayerIds \cup {"p9"}, p_name \in PlayerNames, p_pos \in PlayerPositions :
         CallPlayerMapper(p_id, p_name, p_pos)

MapperSpec == MapperInit /\ [][MapperNext]_vars

-----------------------------------------------------------------------------
(* The persisted JSON form of a League: json.dump(league.to_dict(),        *)
(* sort_keys=True) in src/nfl.py and League.from_dict(json.load(...)) in   *)
(* src/emit_csv.py.  A JSON object read from a file is the sequence of its *)
(* members in file order; a key is the sequence of its characters.         *)

\* an Optional field: None, or a value; in JSON the rank of a FinalStanding
\* is [null |-> TRUE] or [number |-> n]
Unknown == <<>>

Known(x) == <<x>>

\* str(n) of a dict key that is an int: its decimal digits
RECURSIVE str(_)
str(n) == IF n < 10 THEN <<n>> ELSE str(n \div 10) \o <<n % 10>>

\* int(key) of a key of a Dict[int, ...] field
RECURSIVE int(_)
int(key) ==
    IF Len(key) = 1 THEN key[1]
    ELSE 10 * int(SubSeq(key, 1, Len(key) - 1)) + key[Len(key)]

\* the characters of a manager id (the ids are the numerals of IdOrder)
Chars(mid) == str(CHOOSE i \in DOMAIN IdOrder : IdOrder[i] = mid)

\* the order of strings that sort_keys=True sorts by
LexLess(a, b) ==
    \E i \in 1..(Len(a) + 1) :
        /\ i <= Len(b)
        /\ \A j \in 1..(i - 1) : a[j] = b[j]
        /\ i = Len(a) + 1 \/ a[i] < b[i]

\* the members of an object as json.dump writes them with sort_keys=True
RECURSIVE SortKeys(_)
SortKeys(members) ==
    IF members = {} THEN <<>>
    ELSE LET first == CHOOSE m \in members :
                         \A o \in members \ {m} : LexLess(m.key, o.key)
         IN  <<[key |-> first.key, value |-> first.value]>> \o SortKeys(members \ {first})

\* a member of Season.standings as saved, were a None rank left out like
\* the other optional fields
StandingToJsonExcludingNone(standing) ==
    [key |-> Chars(standing.mid),
     value |-> [finalStanding |-> IF standing.final_rank = Unknown
                                  THEN EmptyDict
                                  ELSE [rank |-> [number |-> standing.final_rank[1]]],
                regularSeasonStanding |-> [rank |-> standing.rank,
                                           record |-> standing.record]]]

\* a member of Season.standings as saved: FinalStanding.rank is null when None
StandingToJson(standing) ==
    [key |-> Chars(standing.mid),
     value |-> [finalStanding |-> [rank |-> IF standing.final_rank = Unknown
                                            THEN [null |-> TRUE]
                                            ELSE [number |-> standing.final_rank[1]]],
                regularSeasonStanding |-> [rank |-> standing.rank,
                                           record |-> standing.record]]]

\* a member of Season.weeks as saved: team_data becomes teamData
WeekToJson(week) ==
    [key |-> str(week.week_num),
     value |-> [games |-> [k \in DOMAIN week.games |->
                             [teamData |-> week.games[k].team_data]]]]

\* a member of League.seasons as saved: league_id and draft_results are left
\* out when None
SeasonToJson(season) ==
  LET PickToJson(pick) ==
        [round |-> pick.round, roundSlot |-> pick.round_slot,
         overallPick |-> pick.overall_pick, playerId |-> pick.player_id,
         playerPosition |-> pick.player_position, managerId |-> pick.manager_id]
  IN
    [key |-> str(season.year),
     value |->
        [standings |-> SortKeys({StandingToJson(season.standings[i]) :
                                   i \in DOMAIN season.standings}),
         weeks |-> SortKeys({WeekToJson(season.weeks[i]) : i \in DOMAIN season.weeks})]
        @@ (IF season.league_id = Unknown THEN EmptyDict
            ELSE "leagueId" :> season.league_id[1])
        @@ (IF season.draft_results = Unknown THEN EmptyDict
            ELSE "draftResults" :>
                   [drafts |-> [r \in DOMAIN season.draft_results[1].drafts |->
                                  [k \in DOMAIN season.draft_results[1].drafts[r] |->
                                     PickToJson(season.draft_results[1].drafts[r][k])]]])]

\* json.dump(league.to_dict(), outfile, sort_keys=True, indent=2)
to_json(league) ==
    [id |-> league.id,
     managers |-> league.managers,
     seasons |-> SortKeys({SeasonToJson(league.seasons[i]) : i \in DOMAIN league.seasons})]

\* ManagerStanding.from_dict of a member of standings
StandingFromJson(member) ==
    [mid |-> CHOOSE m \in Range(IdOrder) : Chars(m) = member.key,
     final_rank |-> IF "number" \in DOMAIN member.value.finalStanding.rank
                    THEN Known(member.value.finalStanding.rank.number)
                    ELSE Unknown,
     rank |-> member.value.regularSeasonStanding.rank,
     record |-> member.value.regularSeasonStanding.record]

\* Week.from_dict of a member of weeks: the key is made an int again
WeekFromJson(member) ==
    [week_num |-> int(member.key),
     games |-> [k \in DOMAIN member.value.games |-> Game(member.value.games[k].teamData)]]

\* Season.from_dict of a member of seasons: a field that is left out gets
\* its default None
SeasonFromJson(member) ==
  LET PickFromJson(doc) ==
        [round |-> doc.round, round_slot |-> doc.roundSlot,
         overall_pick |-> doc.overallPick, player_id |-> doc.playerId,
         player_position |-> doc.playerPosition, manager_id |-> doc.managerId]
  IN
    [year |-> int(member.key),
     standings |-> [i \in DOMAIN member.value.standings |->
                      StandingFromJson(member.value.standings[i])],
     weeks |-> [i \in DOMAIN member.value.weeks |-> WeekFromJson(member.value.weeks[i])],
     league_id |-> IF "leagueId" \in DOMAIN member.value
                   THEN Known(member.value.leagueId) ELSE Unknown,
     draft_results |->
        IF "draftResults" \in DOMAIN member.value
        THEN Known([drafts |-> [r \in DOMAIN member.value.draftResults.drafts |->
                                  [k \in DOMAIN member.value.draftResults.drafts[r] |->
                                     PickFromJson(member.value.draftResults.drafts[r][k])]]])
        ELSE Unknown]

\* League.from_dict(json.load(season_data_file)): a FinalStanding without
\* its rank cannot be built
from_dict(doc) ==
    IF \E i \in DOMAIN doc.seasons : \E j \in DOMAIN doc.seasons[i].value.standings :
          "rank" \notin DOMAIN doc.seasons[i].value.standings[j].value.finalStanding
    THEN [loaded |-> TRUE, err |-> "KeyError", league |-> League(EmptyDict, <<>>)]
    ELSE [loaded |-> TRUE, err |-> NoError,
          league |-> [id |-> doc.id,
                      managers |-> doc.managers,
                      seasons |-> [i \in DOMAIN doc.seasons |->
                                     SeasonFromJson(doc.seasons[i])]]]

\* the Leagues that are saved: no, one or two seasons, the later one first;
\* standings with known and unknown final ranks, weeks 1, 2 and 10, a
\* league id and a draft or neither
SavedLeagues ==
    LET tally == [wins |-> 2, losses |-> 1, ties |-> 0]
        SavedStandings ==
            {<<>>,
             <<[mid |-> "1", final_rank |-> Unknown, rank |-> 1, record |-> tally]>>,
             <<[mid |-> "2", final_rank |-> Known(1), rank |-> 2, record |-> tally],
               [mid |-> "1", final_rank |-> Unknown, rank |-> 1, record |-> tally]>>}
        roster == [starters |-> <<[id |-> "p1", name |-> "Ann", position |-> "QB"]>>,
                   bench |-> <<>>]
        g == Game(<<[points |-> 100, managers |-> <<"1">>, roster |-> roster],
                    [points |-> 90, managers |-> <<"2", "3">>, roster |-> Roster]>>)
        SavedWeeks ==
            {<<>>, <<Week(1, <<g>>)>>, <<Week(2, <<>>), Week(10, <<g>>), Week(1, <<>>)>>}
        SavedDrafts ==
            {Unknown,
             Known([drafts |-> <<<<[round |-> 1, round_slot |-> 2, overall_pick |-> 2,
                                    player_id |-> "p1", player_position |-> "QB",
                                    manager_id |-> "1"]>>>>])}
        SavedSeasons(year) ==
            {[year |-> year, standings |-> st, weeks |-> ws, league_id |-> lid,
              draft_results |-> d] :
                st \in SavedStandings, ws \in SavedWeeks, lid \in {Unknown, Known(7)},
                d \in SavedDrafts}
    IN  {League(ms, ss) :
            ms \in {EmptyDict,
                    "1" :> Manager("Alice", <<2020, 2021>>) @@ "2" :> Manager("Bob", <<2021>>)},
            ss \in {<<>>} \cup {<<a>> : a \in SavedSeasons(2020)}
                   \cup {<<a, b>> : a \in SavedSeasons(2021),
                                    b \in {x \in SavedSeasons(2020) :
                                             x.draft_results = Unknown}}}

JsonInit ==
    /\ TransformerIdle
    /\ NoConfiguration
    /\ NoCollection
    /\ NoExport
    /\ NoMapper
    /\ CollectorsIdle
    /\ saved_league \in SavedLeagues
    /\ NoJsonCalls

\* src/nfl.py line 36 / 46: the League is written to the file
JsonDump ==
    /\ ~outfile.written
    /\ outfile' = [written |-> TRUE, doc |-> to_json(saved_league)]
    /\ UNCHANGED <<saved_league, reloaded, not_json>>

\* src/emit_csv.py lines 37-38: the League is loaded from the file
JsonLoad ==
    /\ outfile.written
    /\ ~reloaded.loaded
    /\ reloaded' = from_dict(outfile.doc)
    /\ UNCHANGED <<saved_league, outfile, not_json>>

JsonNext ==
    \/ JsonDump
    \/ JsonLoad

JsonSpec == JsonInit /\ [][JsonNext]_vars

-----------------------------------------------------------------------------
(* The exporters that rewrite or guard their table: set_managers,          *)
(* set_players and set_drafts (src/league_history_collector/transformer/   *)
(* csv/manager.py, player.py, draft.py).                                   *)

\* csv.DictReader over a file: the first line names the fields, the other
\* lines are the rows
DictReader(file) == IF file.lines = <<>> THEN <<>> ELSE Tail(file.lines)

\* a row of managers.csv
ManagerLine(m_id, m_name) == [manager_id |-> m_id, manager_name |-> m_name]

\* managers_output[key] = value for each entry in turn: a key that is there
\* keeps its place and takes the new value, a new key goes to the end
RECURSIVE AssignAll(_, _)
AssignAll(output, entries) ==
    IF entries = <<>> THEN output
    ELSE LET e == Head(entries)
             at == {i \in DOMAIN output : output[i].manager_id = e.manager_id}
         IN  AssignAll(IF at = {} THEN Append(output, e)
                       ELSE [i \in DOMAIN output |-> IF i \in at THEN e ELSE output[i]],
                       Tail(entries))

\* the (mapped id, name) pairs of the managers argument, in iteration order
ManagerEntries(ms, id_mapper) ==
    LET order == ManagerOrder(ms)
    IN  [k \in DOMAIN order |->
           ManagerLine(CallMapping(id_mapper, order[k]), ms[order[k]].name)]

\* variant of managers_output: the existing file is not loaded
managers_output_without_file(file, ms, id_mapper) ==
    AssignAll(<<>>, ManagerEntries(ms, id_mapper))

\* manager.py lines 25-34
managers_output(file, ms, id_mapper) ==
    AssignAll(IF file.exists THEN AssignAll(<<>>, DictReader(file)) ELSE <<>>,
              ManagerEntries(ms, id_mapper))

\* the managers arguments of the runs
ManagerArgs ==
    {EmptyDict,
     "1" :> Manager("Alice", <<2020>>),
     "1" :> Manager("Alicia", <<2020, 2021>>) @@ "2" :> Manager("Bob", <<2021>>),
     "3" :> Manager("Carol", <<>>) @@ "2" :> Manager("Rob", <<2021>>)}

TableInit ==
    /\ TransformerIdle
    /\ NoConfiguration
    /\ NoCollection
    /\ NoMapper
    /\ NoJson
    /\ CollectorsIdle
    /\ NoExport

\* the calls of the three exporters so far
TableRuns == export_runs["managers.csv"] + export_runs["players.csv"] + export_runs["drafts.csv"]

\* set_managers(managers_csv, managers, id_mapper), lines 25-42
set_managers(ms, id_mapper) ==
    /\ TableRuns < MaxTableRuns
    /\ tables' = [tables EXCEPT !["managers.csv"] =
                    [exists |-> TRUE,
                     lines |-> <<HeaderLine({"manager_id", "manager_name"})>>
                               \o managers_output(tables["managers.csv"], ms, id_mapper)]]
    /\ export_ret' = [op |-> "set_managers", err |-> NoError,
                      rows |-> ManagerEntries(ms, id_mapper), deduplicate |-> FALSE]
    /\ export_runs' = [export_runs EXCEPT !["managers.csv"] = @ + 1]
    /\ UNCHANGED <<export_input, not_export>>

\* the sequences of a sequence, one after the other
RECURSIVE Concat(_)
Concat(seqs) == IF seqs = <<>> THEN <<>> ELSE Head(seqs) \o Concat(Tail(seqs))

\* the players of a League in the order set_players meets them: per side
\* of every game the starters, then the bench (player.py lines 43-59)
PlayersOf(ss) ==
    Concat([i \in DOMAIN ss |->
      Concat([j \in DOMAIN ss[i].weeks |->
        Concat([g \in DOMAIN ss[i].weeks[j].games |->
          Concat([t \in DOMAIN ss[i].weeks[j].games[g].team_data |->
            ss[i].weeks[j].games[g].team_data[t].roster.starters
            \o ss[i].weeks[j].games[g].team_data[t].roster.bench])])])])

\* player.py lines 48-52 (and 55-59): the id of the League's player is added
\* unless exactly one id is known for its name and position
NotePlayer(output, player) ==
    LET player_tup == <<player.name, player.position>>
        potential_ids == IF player_tup \in DOMAIN output THEN output[player_tup]
                         ELSE {player.id}
    IN  DictSet(output, player_tup,
                IF Cardinality(potential_ids) # 1 THEN potential_ids \cup {player.id}
                ELSE potential_ids)

\* player.py lines 31-59; deduplicate is not read anywhere in the function
RECURSIVE players_output(_, _, _)
players_output(output, players, deduplicate) ==
    IF players = <<>> THEN output
    ELSE players_output(NotePlayer(output, Head(players)), Tail(players), deduplicate)

\* the rows written at lines 66-70, in some order of the dict and its sets
RECURSIVE PlayerLines(_)
PlayerLines(output) ==
    IF DOMAIN output = {} THEN <<>>
    ELSE LET t == CHOOSE t \in DOMAIN output : TRUE
             p_id == CHOOSE p_id \in output[t] : TRUE
             rest == IF output[t] = {p_id}
                     THEN [u \in DOMAIN output \ {t} |-> output[u]]
                     ELSE [output EXCEPT ![t] = @ \ {p_id}]
         IN  <<PlayerRow(p_id, t[1], t[2])>> \o PlayerLines(rest)

\* the Leagues given to set_players: one game, its first side with up to two
\* starters and perhaps a player on the bench
PlayerLeagues ==
    LET Player(id, name, position) == [id |-> id, name |-> name, position |-> position]
        starters == {<<>>, <<Player("p1", "Ann", "QB")>>,
                     <<Player("p1", "Ann", "QB"), Player("p2", "Ann", "QB")>>,
                     <<Player("p2", "Bob", "QB"), Player("p1", "Ann", "RB")>>}
        benches == {<<>>, <<Player("p3", "Ann", "QB")>>}
    IN  {League(EmptyDict,
                <<Season(2020, <<>>,
                         <<Week(1, <<Game(<<[points |-> 100, managers |-> <<"1">>,
                                             roster |-> [starters |-> st, bench |-> b]],
                                            TeamGameData(90, <<"2">>)>>)>>)>>)>>) :
            st \in starters, b \in benches}

\* set_players(players_csv, league, deduplicate), lines 31-70
set_players(league, deduplicate) ==
    /\ TableRuns < MaxTableRuns
    /\ LET file == tables["players.csv"]
           loaded == IF file.exists THEN LoadMapping(DictReader(file)) ELSE EmptyDict
           output == players_output(loaded, PlayersOf(league.seasons), deduplicate)
       IN  tables' = [tables EXCEPT !["players.csv"] =
                        [exists |-> TRUE,
                         lines |-> <<HeaderLine({"player_id", "player_name",
                                                 "player_position"})>>
                                   \o PlayerLines(output)]]
    /\ export_ret' = [op |-> "set_players", err |-> NoError,
                      rows |-> PlayersOf(league.seasons), deduplicate |-> deduplicate]
    /\ export_input' = [league |-> league, id_mapper |-> "ident"]
    /\ export_runs' = [export_runs EXCEPT !["players.csv"] = @ + 1]
    /\ UNCHANGED not_export

\* draft.py lines 33-52: the rows, or the exception of reading a pick
draft_results(league, manager_id_mapper, mapping) ==
    LET PickRows(season, draft_idx) ==
          LET draft == season.draft_results[1].drafts[draft_idx + 1]
          IN  [k \in DOMAIN draft |->
                 [draft_idx |-> draft_idx, season_id |-> season.year,
                  round |-> draft[k].round, round_slot |-> draft[k].round_slot,
                  overall_pick |-> draft[k].overall_pick,
                  player_id |-> IF "player_name" \in DOMAIN draft[k]
                                THEN player_mapper(mapping, draft[k].player_id,
                                                   draft[k].player_name,
                                                   draft[k].player_position)
                                ELSE "AttributeError",
                  player_position |-> draft[k].player_position,
                  manager_id |-> CallMapping(manager_id_mapper, draft[k].manager_id)]]
        SeasonRows(season) ==
          IF season.draft_results = Unknown THEN <<>>
          ELSE Concat([d \in DOMAIN season.draft_results[1].drafts |->
                         PickRows(season, d - 1)])
        rows == Concat([i \in DOMAIN league.seasons |-> SeasonRows(league.seasons[i])])
    IN  IF \E i \in DOMAIN rows : rows[i].player_id = "AttributeError"
        THEN [err |-> "AttributeError", rows |-> <<>>]
        ELSE [err |-> NoError, rows |-> rows]

\* the Leagues given to set_drafts: no season, or one season without draft
\* results, with no draft, or with one or two drafts of DraftPicks
DraftLeagues ==
    LET DraftPick(round, round_slot, player_id, manager_id) ==
          [round |-> round, round_slot |-> round_slot, overall_pick |-> round_slot,
           player_id |-> player_id, player_position |-> "QB", manager_id |-> manager_id]
        one == <<DraftPick(1, 1, "p1", "1"), DraftPick(1, 2, "p2", "2")>>
    IN  {League(EmptyDict, <<>>)} \cup
        {League(EmptyDict, <<[year |-> 2020, standings |-> <<>>, weeks |-> <<>>,
                              league_id |-> Unknown, draft_results |-> d]>>) :
            d \in {Unknown, Known([drafts |-> <<>>]), Known([drafts |-> <<one>>]),
                   Known([drafts |-> <<one, <<DraftPick(1, 1, "p2", "2")>>>>])}}

\* set_drafts(drafts_csv, league, manager_id_mapper, player_mapper), lines 33-70
set_drafts(league, manager_id_mapper) ==
    /\ TableRuns < MaxTableRuns
    /\ LET r == draft_results(league, manager_id_mapper, player_mapping.ids)
           w == AppendRows(tables["drafts.csv"], r.rows)
       IN  /\ tables' = IF r.err = NoError /\ r.rows # <<>>
                        THEN [tables EXCEPT !["drafts.csv"] = w.file]
                        ELSE tables
           /\ export_ret' = [op |-> "set_drafts", err |-> r.err, rows |-> r.rows,
                             deduplicate |-> FALSE]
    /\ export_input' = [league |-> league, id_mapper |-> manager_id_mapper]
    /\ export_runs' = [export_runs EXCEPT !["drafts.csv"] = @ + 1]
    /\ UNCHANGED not_export

TableNext ==
    \/ \E ms \in ManagerArgs, id_mapper \in {"ident", "const"} : set_managers(ms, id_mapper)
    \/ \E league \in PlayerLeagues, deduplicate \in BOOLEAN : set_players(league, deduplicate)
    \/ \E league \in DraftLeagues, id_mapper \in {"ident", "suffix"} : set_drafts(league, id_mapper)

TableSpec == TableInit /\ [][TableNext]_vars

-----------------------------------------------------------------------------
(* SleeperCollector._get_final_standings (sleeper.py lines 145-242): the   *)
(* champion and the runner-up of a season, read off the winners bracket.   *)

\* a matchup of the winners bracket as the playoffs endpoint reports it;
\* t1_from / t2_from are Unknown for a seeded team, else Known(From(...))
Matchup(r, m, w, l, t1_from, t2_from) ==
    [r |-> r, m |-> m, w |-> w, l |-> l, t1_from |-> t1_from, t2_from |-> t2_from]

\* {"w": m} or {"l": m}: the winner or the loser of matchup m
From(key, m) == [key |-> key, m |-> m]

\* line 173: playoffs_data.sort(key=lambda m: (m["r"])), a stable sort
SortByRound(playoffs_data) ==
    LET rounds == {playoffs_data[i].r : i \in DOMAIN playoffs_data}
        top == IF rounds = {} THEN 0 ELSE CHOOSE r \in rounds : \A q \in rounds : q <= r
    IN Concat([r \in 1..top |-> SelectSeq(playoffs_data, LAMBDA x : x.r = r)])

\* lines 175-199: valid_matchups_including_round after the first loop
RECURSIVE valid_matchups_including_round(_, _)
valid_matchups_including_round(playoffs_data, valid) ==
    IF playoffs_data = <<>> THEN valid
    ELSE LET matchup == Head(playoffs_data)
             valid_matchups == {p[2] : p \in valid}
             Skipped(t_from) ==
                 /\ t_from # Unknown
                 /\ \/ t_from[1].key # "w"
                    \/ t_from[1].m \notin valid_matchups
             added == \/ matchup.r = 1
                      \/ ~Skipped(matchup.t1_from) /\ ~Skipped(matchup.t2_from)
         IN valid_matchups_including_round(Tail(playoffs_data),
                IF added THEN valid \cup {<<matchup.r, matchup.m>>} ELSE valid)

\* lines 176-181: the highest round of the bracket
championship_round(playoffs_data) ==
    CHOOSE r \in {playoffs_data[i].r : i \in DOMAIN playoffs_data} :
        \A i \in DOMAIN playoffs_data : playoffs_data[i].r <= r

\* a championship matchup that is set by whichever valid matchup comes first
championship_matchup_any(valid, round) ==
    LET finals == {p \in valid : p[1] = round}
    IN IF finals = {} THEN [err |-> NoError, m |-> Unknown]
       ELSE [err |-> NoError, m |-> Known((CHOOSE p \in finals : TRUE)[2])]

\* lines 203-214: the championship matchup, set once only
championship_matchup(valid, round) ==
    LET finals == {p \in valid : p[1] = round}
    IN IF Cardinality(finals) > 1 THEN [err |-> "ValueError", m |-> Unknown]
       ELSE IF finals = {} THEN [err |-> NoError, m |-> Unknown]
       ELSE [err |-> NoError, m |-> Known((CHOOSE p \in finals : TRUE)[2])]

\* lines 165-242 of _get_final_standings, after the response was parsed
get_final_standings(data, team_to_manager) ==
    LET playoffs_data == SortByRound(data)
        round == championship_round(playoffs_data)
        final == championship_matchup(
                     valid_matchups_including_round(playoffs_data, {}), round)
        found == {i \in DOMAIN playoffs_data :
                     /\ playoffs_data[i].r = round
                     /\ final.m = Known(playoffs_data[i].m)}
        Raised(err) == [called |-> TRUE, err |-> err, final_standings |-> EmptyDict]
    IN IF final.err # NoError THEN Raised(final.err)
       ELSE IF found = {} THEN Raised("AssertionError")
       ELSE LET matchup == playoffs_data[CHOOSE i \in found : \A j \in found : j <= i]
            IN IF matchup.w \notin DOMAIN team_to_manager
                  \/ matchup.l \notin DOMAIN team_to_manager
               THEN Raised("KeyError")
               ELSE LET first == Range(team_to_manager[matchup.w])
                        second == Range(team_to_manager[matchup.l])
                    IN IF first \cup second = {} THEN Raised("AssertionError")
                       ELSE [called |-> TRUE, err |-> NoError,
                             final_standings |->
                                 [manager_id \in first \cup second |->
                                     IF manager_id \in second THEN 2 ELSE 1]]

\* the froms a matchup of round r can have: a seeded team, or the winner or
\* the loser of one of the matchups below
Froms(below) ==
    {Unknown} \cup {Known(From(key, m)) : key \in {"w", "l"}, m \in below}

\* completed brackets: two matchups in round 1, one in round 2 and possibly
\* a fourth one in round 2 or later
Brackets ==
    LET first == <<Matchup(1, 1, 1, 2, Unknown, Unknown),
                   Matchup(1, 2, 3, 4, Unknown, Unknown)>>
        thirds == {Matchup(2, 3, wl[1], wl[2], f1, f2) :
                       wl \in {<<1, 3>>, <<3, 1>>}, f1 \in Froms({1, 2}), f2 \in Froms({1, 2})}
        fourths == UNION {{Matchup(r, 4, 5, 6, f1, f2) :
                              f1 \in Froms(IF r = 2 THEN {1, 2} ELSE {1, 2, 3}),
                              f2 \in Froms(IF r = 2 THEN {1, 2} ELSE {1, 2, 3})} :
                          r \in 2..MaxRound}
    IN {first \o <<m3>> : m3 \in thirds}
           \cup {first \o <<m3, m4>> : m3 \in thirds, m4 \in fourths}

\* the bracket as the endpoint lists it, or from the last matchup to the first
Reversed(s) == [i \in 1..Len(s) |-> s[Len(s) + 1 - i]]

\* one manager per roster, or a first roster that two managers share
TeamsToManagers ==
    {[t \in 1..6 |-> <<ToString(t)>>],
     [t \in 1..6 |-> IF t = 1 THEN <<"1", "7">> ELSE <<ToString(t)>>]}

StandingsInit ==
    /\ TransformerIdle
    /\ NoConfiguration
    /\ NoCollection
    /\ NoExport
    /\ NoMapper
    /\ NoJson
    /\ NoWeek
    /\ NoNfl
    /\ \E b \in Brackets, team_to_manager \in TeamsToManagers :
           playoffs_input \in {[playoffs_data |-> d, team_to_manager |-> team_to_manager] :
                                   d \in {b, Reversed(b)}}
    /\ NoStandingsCall

\* _get_final_standings(year, team_to_manager)
_get_final_standings ==
    /\ ~standings_ret.called
    /\ standings_ret' = get_final_standings(playoffs_input.playoffs_data,
                                            playoffs_input.team_to_manager)
    /\ UNCHANGED <<playoffs_input, not_standings>>

StandingsNext == _get_final_standings

StandingsSpec == StandingsInit /\ [][StandingsNext]_vars

-----------------------------------------------------------------------------
(* SleeperCollector._get_games_for_week (sleeper.py lines 377-442): the    *)
(* team-week entries of the matchups endpoint, grouped into Games.         *)

\* the teams of a week
MaxTeams == 4

\* an entry of the matchups endpoint; matchup_id is Unknown (null) for a team
\* without an opponent, else Known(id)
TeamWeek(roster_id, matchup_id) ==
    [roster_id |-> roster_id, matchup_id |-> matchup_id, points |-> 10 * roster_id,
     players |-> {ToString(roster_id), ToString(10 + roster_id)},
     starters |-> {ToString(roster_id), "0"}]

\* lines 399-434: the TeamGameData of an entry; starters and bench are built
\* from sets, so they are kept as sets of player ids
SleeperTeamData(team_week, team_to_manager) ==
    LET starters == team_week.starters \ {"0"}
    IN [points |-> team_week.points,
        managers |-> team_to_manager[team_week.roster_id],
        roster |-> [starters |-> starters, bench |-> team_week.players \ starters]]

\* lines 389-436: matchup_results, a dict in insertion order
RECURSIVE matchup_results(_, _, _)
matchup_results(results, week_data, team_to_manager) ==
    IF week_data = <<>> THEN results
    ELSE LET team_week == Head(week_data)
             team_data == SleeperTeamData(team_week, team_to_manager)
             known == {i \in DOMAIN results : results[i].matchup_id = team_week.matchup_id}
             with_key == IF known = {}
                         THEN Append(results, [matchup_id |-> team_week.matchup_id,
                                               game |-> Game(<<>>)])
                         ELSE results
             at == CHOOSE i \in DOMAIN with_key : with_key[i].matchup_id = team_week.matchup_id
         IN matchup_results(
                [with_key EXCEPT ![at].game.team_data = Append(@, team_data)],
                Tail(week_data), team_to_manager)

\* lines 438-442: Week(games=list(matchup_results.values()))
get_games_for_week(week_data, team_to_manager) ==
    LET results == matchup_results(<<>>, week_data, team_to_manager)
    IN [called |-> TRUE, games |-> [i \in DOMAIN results |-> results[i].game]]

\* the weeks the endpoint reports: some of the teams, in roster order or the
\* other way round, every matchup id that occurs shared by exactly two teams
WeekDatas ==
    LET ids == {Unknown, Known(1), Known(2)}
        Paired(teams, of) == \A id \in {Known(1), Known(2)} :
                                 Cardinality({t \in teams : of[t] = id}) \in {0, 2}
        InOrder(teams, of) ==
            LET Entry(t) == <<TeamWeek(t, of[t])>>
                Nothing(t) == <<>>
            IN Concat([t \in 1..MaxTeams |-> IF t \in teams THEN Entry(t) ELSE Nothing(t)])
        listed == UNION {{InOrder(teams, of) : of \in {f \in [teams -> ids] : Paired(teams, f)}} :
                         teams \in SUBSET (1..MaxTeams)}
    IN listed \cup {Reversed(d) : d \in listed}

WeekInit ==
    /\ TransformerIdle
    /\ NoConfiguration
    /\ NoCollection
    /\ NoExport
    /\ NoMapper
    /\ NoJson
    /\ NoStandings
    /\ NoNfl
    /\ week_input \in {[week_data |-> d, team_to_manager |-> team_to_manager] :
                           d \in WeekDatas, team_to_manager \in TeamsToManagers}
    /\ NoWeekCall

\* _get_games_for_week(year, week, team_to_manager)
_get_games_for_week ==
    /\ ~week_ret.called
    /\ week_ret' = get_games_for_week(week_input.week_data, week_input.team_to_manager)
    /\ UNCHANGED <<week_input, not_week>>

WeekNext == _get_games_for_week

WeekSpec == WeekInit /\ [][WeekNext]_vars

-----------------------------------------------------------------------------
(* NFLCollector (collectors/nfl.py): the login and the public operations.  *)

\* the public calls on one NFLCollector
MaxNflCalls == 3

\* the seasons that the league history page lists
MaxNflSeasons == 1

\* a page change of the driver: the page asked for and the page it ended on
Page(url, current_url) == [url |-> url, current_url |-> current_url]

\* what the site can do with a sign-in: accept it, show no login form, show
\* no "Sign In" submit button, or not end up on the league page
Outcomes == {"up", "no_form", "no_button", "wrong_url"}

\* a login that takes the click on "Sign In" for the login
login_unchecked(outcome) ==
    LET sign_in == Page("account/sign-in", "account/sign-in")
        click == Page("click", "click")
    IN CASE outcome = "no_form" ->
              [requests |-> <<sign_in>>, err |-> "NoSuchElementException", logged_in |-> FALSE]
         [] outcome = "no_button" ->
              [requests |-> <<sign_in>>, err |-> "RuntimeError", logged_in |-> FALSE]
         [] outcome = "wrong_url" ->
              [requests |-> <<sign_in, click, Page("league", "account/sign-in")>>,
               err |-> NoError, logged_in |-> TRUE]
         [] OTHER ->
              [requests |-> <<sign_in, click, Page("league", "league")>>,
               err |-> NoError, logged_in |-> TRUE]

\* _login, lines 119-168: the pages it requests, what it raises and the
\* value of self._logged_in it leaves when it starts with the flag false
login(outcome) ==
    LET sign_in == Page("account/sign-in", "account/sign-in")
        click == Page("click", "click")
    IN CASE outcome = "no_form" ->
              [requests |-> <<sign_in>>, err |-> "NoSuchElementException", logged_in |-> FALSE]
         [] outcome = "no_button" ->
              [requests |-> <<sign_in>>, err |-> "RuntimeError", logged_in |-> FALSE]
         [] outcome = "wrong_url" ->
              [requests |-> <<sign_in, click, Page("league", "account/sign-in")>>,
               err |-> "RuntimeError", logged_in |-> FALSE]
         [] OTHER ->
              [requests |-> <<sign_in, click, Page("league", "league")>>,
               err |-> NoError, logged_in |-> TRUE]

\* `if not self._logged_in: self._login()` (lines 93-94, 176-177, 204-205)
login_if_needed(logged_in, outcome) ==
    IF logged_in THEN [requests |-> <<>>, err |-> NoError, logged_in |-> TRUE]
    ELSE login(outcome)

\* the pages that set_season_data requests for a season with one team, one
\* week and one game (lines 208-236): final standings and team home in
\* _get_managers, final and regular season standings, the schedule in
\* _get_weeks and _get_games_for_week, the matchup in _get_game_results and
\* in _get_matchup_rosters
SeasonPages ==
    [i \in 1..8 |-> Page(<<"finalstandings", "team", "finalstandings", "regularseason",
                           "schedule", "schedule", "matchup", "matchup">>[i],
                         <<"finalstandings", "team", "finalstandings", "regularseason",
                           "schedule", "schedule", "matchup", "matchup">>[i])]

\* one public call: the login where needed, then the pages of the call; a
\* call that raised stopped at the page that could not be read
NflCall(op, outcome, pages, failed) ==
    LET entered == login_if_needed(_logged_in, outcome)
        ok == entered.err = NoError
    IN /\ nfl_ret.calls < MaxNflCalls
       /\ _logged_in' = entered.logged_in
       /\ site' = IF _logged_in THEN "none" ELSE outcome
       /\ driver' = driver \o entered.requests \o (IF ok THEN pages ELSE <<>>)
       /\ nfl_ret' = [op |-> op, calls |-> nfl_ret.calls + 1,
                      err |-> IF ~ok THEN entered.err
                              ELSE IF failed THEN "RuntimeError" ELSE NoError]
       /\ UNCHANGED not_nfl

\* the league history page of get_seasons, line 182
History == <<Page("history", "history")>>

NflInit ==
    /\ TransformerIdle
    /\ NoConfiguration
    /\ NoCollection
    /\ NoExport
    /\ NoMapper
    /\ NoJson
    /\ NoStandings
    /\ NoWeek
    /\ NoNfl

\* get_seasons(), lines 170-194
get_seasons(outcome) == NflCall("get_seasons", outcome, History, FALSE)

\* set_season_data(year, league), lines 196-236; n is the number of pages
\* read before one of the page readers raised
NFLCollector_set_season_data(outcome, n) ==
    NflCall("set_season_data", outcome, SubSeq(SeasonPages, 1, n), n < Len(SeasonPages))

\* save_all_data(), lines 88-100, for a league with the given number of
\* seasons
save_all_data(outcome, years, n) ==
    NflCall("save_all_data", outcome,
            History \o Concat([y \in 1..years |->
                                  IF y < years THEN SeasonPages
                                  ELSE SubSeq(SeasonPages, 1, n)]),
            years > 0 /\ n < Len(SeasonPages))

NflNext ==
    \/ \E outcome \in Outcomes : get_seasons(outcome)
    \/ \E outcome \in Outcomes, n \in {1, 5, 8} : NFLCollector_set_season_data(outcome, n)
    \/ \E outcome \in Outcomes, years \in 0..MaxNflSeasons, n \in {1, 8} :
           save_all_data(outcome, years, n)

NflSpec == NflInit /\ [][NflNext]_vars

-----------------------------------------------------------------------------
(* Properties.                                                             *)

\* every game of a League, with the year and week it is filed under
GamesOf(league) ==
    UNION {UNION {{[year |-> league.seasons[i].year,
                    week_num |-> league.seasons[i].weeks[j].week_num,
                    game |-> league.seasons[i].weeks[j].games[k]] :
                      k \in DOMAIN league.seasons[i].weeks[j].games} :
                    j \in DOMAIN league.seasons[i].weeks} :
             i \in DOMAIN league.seasons}

\* the manager ids that the games of a League mention
IdsInGames(league) ==
    UNION {UNION {Range(g.game.team_data[i].managers) :
                    i \in DOMAIN g.game.team_data} :
             g \in GamesOf(league)}

\* the manager ids that the standings of a League mention
IdsInStandings(league) ==
    UNION {{st.mid : st \in Range(league.seasons[i].standings)} :
             i \in DOMAIN league.seasons}

PlaceholderViews ==
    /\ _league_summary = EmptyLeagueSummary
    /\ _games = Games(EmptyDict)
    /\ _head_to_head = HeadToHead(EmptyDict)
    /\ _seasons = Seasons(EmptyDict)
    /\ _managers = Managers(EmptyDict)

\* C1: as long as no transform() call has returned normally - after the
\* construction, and after transform() calls that raised, whatever they left
\* in the fields - each of the five accessors raises the "not yet computed"
\* RuntimeError, and so did the accessor that was read last.
C1_UnreadableBeforeTransformed ==
    (obj = "live" /\ ~completed) =>
        /\ \A a \in Accessors : Get(a).err = "RuntimeError"
        /\ ret.op = "read" => ret.err = "RuntimeError"

\* C1 happens: a transform() raised after it had stored a games view, and the
\* accessor read after it raised.
C1_Witness ==
    /\ obj = "live" /\ ~completed
    /\ _games # Games(EmptyDict)
    /\ ret.op = "read" /\ ret.accessor = "games" /\ ret.err = "RuntimeError"

\* C2: once the Transformer is transformed, no step - a further transform()
\* in particular - changes the flag or any of the views, a further transform()
\* returns normally, and the object never goes back to untransformed.
C2_TransformIdempotent ==
    [][_transformed = TRUE =>
         /\ _transformed' = TRUE
         /\ UNCHANGED views
         /\ obj' = "live"
         /\ ret'.op = "transform" => ret'.err = NoError]_vars

\* C2 happens: a transform() call has returned on a transformed object whose
\* views hold data.
C2_Witness ==
    /\ _transformed = TRUE /\ ret.op = "transform"
    /\ _games # Games(EmptyDict)
    /\ \E a \in DOMAIN _head_to_head.matchups :
         \E b \in DOMAIN _head_to_head.matchups : _head_to_head.matchups[a][b] # <<>>

\* each game has two sides and every id in a game or a standing is a manager
WellFormed(league) ==
    /\ \A g \in GamesOf(league) : Len(g.game.team_data) = 2
    /\ IdsInGames(league) \cup IdsInStandings(league) \subseteq DOMAIN league.managers

\* C3 as stated: on a League whose games all have two sides and whose ids are
\* all managers, a transform() call returns normally, the object is
\* transformed and every accessor returns a value.
C3_WellFormedLeagueIsTransformed ==
    (obj = "live" /\ ret.op = "transform" /\ WellFormed(given)) =>
        /\ ret.err = NoError
        /\ _transformed = TRUE
        /\ \A a \in Accessors : Get(a).err = NoError

\* some game of the League has a number of sides other than two
HasBadGame(league) == \E g \in GamesOf(league) : Len(g.game.team_data) # 2

\* no lookup of the games pass can fail: each id in a game is a manager and
\* is also one of the names that key the matchups
LookupsCannotFail(d) ==
    IdsInGames(d) \subseteq (DOMAIN d.managers \cap ManagerNames(d))

\* What does hold for a League with such a game: no transform() call ever
\* completes - each raises the ValueError of the side check, or the KeyError
\* of a manager lookup that fails before the walk gets that far (ValueError
\* whenever no lookup can fail).
BadGameNeverTransformed ==
    (obj = "live" /\ HasBadGame(given)) =>
        /\ _transformed = FALSE /\ ~completed
        /\ ret.op = "transform" =>
             /\ ret.err \in {"ValueError", "KeyError"}
             /\ LookupsCannotFail(_data) => ret.err = "ValueError"

\* C4 as stated: on a League whose game ids are all managers and that holds
\* a game with a number of sides other than two, a transform() call raises
\* the validation error of the side check (ValueError) and the object is not
\* transformed.
C4_BadGameRaisesValidationError ==
    (obj = "live" /\ ret.op = "transform" /\ HasBadGame(given)
       /\ IdsInGames(given) \subseteq DOMAIN given.managers) =>
        /\ ret.err = "ValueError"
        /\ _transformed = FALSE

Count(seq, x) == Cardinality({i \in DOMAIN seq : seq[i] = x})

\* C5: on a transformed object, for all names A and B every (year, week)
\* occurs in matchups[A][B] as often as in matchups[B][A].
C5_HeadToHeadSymmetric ==
    _transformed = TRUE =>
        LET mu == _head_to_head.matchups
        IN  \A a \in DOMAIN mu : \A b \in DOMAIN mu :
              \A yw \in Range(mu[a][b]) \cup Range(mu[b][a]) :
                 Count(mu[a][b], yw) = Count(mu[b][a], yw)

\* C5 happens: a transformed object whose League has a game with a
\* co-managed side, so that one game made several pairs.
C5_Witness ==
    /\ _transformed = TRUE
    /\ \E g \in GamesOf(_data) : \E i \in DOMAIN g.game.team_data :
         Len(g.game.team_data[i].managers) = 2
    /\ \E a, b, c \in DOMAIN _head_to_head.matchups :
         /\ a # b
         /\ _head_to_head.matchups[a][c] # <<>>
         /\ _head_to_head.matchups[b][c] # <<>>

\* no standings and no seasons lists: only the games pass has work to do
GamesOnly(league) ==
    /\ \A i \in DOMAIN league.seasons : league.seasons[i].standings = <<>>
    /\ \A m \in DOMAIN league.managers : league.managers[m].seasons = <<>>

\* C6 as stated: on a well-formed League transform() returns normally, each
\* game between ids a and b is recorded under matchups[name(a)][name(b)] and
\* matchups[name(b)][name(a)], and the game filed under its year and week has
\* two team-data entries.
C6_ViewsKeyedByNames ==
    (obj = "live" /\ ret.op = "transform" /\ WellFormed(given) /\ GamesOnly(given)) =>
        /\ ret.err = NoError
        /\ \A g \in GamesOf(_data) :
             /\ g.year \in DOMAIN _games.games
             /\ g.week_num \in DOMAIN _games.games[g.year]
             /\ Len(_games.games[g.year][g.week_num].team_data) = 2
             /\ \A a \in Range(g.game.team_data[1].managers) :
                  \A b \in Range(g.game.team_data[2].managers) :
                    LET name_a == _data.managers[a].name
                        name_b == _data.managers[b].name
                        mu == _head_to_head.matchups
                    IN  /\ name_a \in DOMAIN mu /\ name_b \in DOMAIN mu
                        /\ <<g.year, g.week_num>> \in Range(mu[name_a][name_b])
                        /\ <<g.year, g.week_num>> \in Range(mu[name_b][name_a])

\* the name that the arguments of the construction give to manager m
ExpectedName(league, m) ==
    IF args.anonymizer # None
    THEN CallAnonymizer(args.anonymizer, league.managers[m].name)
    ELSE IF args.manager_id_mapping # None
         THEN CallMapping(args.manager_id_mapping, m)
    ELSE league.managers[m].name

\* two distinct manager ids of the League end up with the same name
NamesCollide(league) ==
    \E m1 \in DOMAIN league.managers : \E m2 \in DOMAIN league.managers :
        m1 # m2 /\ ExpectedName(league, m1) = ExpectedName(league, m2)

\* C7: a construction with at most one of the two functions raises
\* RuntimeError exactly when two distinct ids end up with the same name; a
\* construction that raised leaves no object, so nothing can be transformed;
\* and in every Transformer that exists all managers' names differ.
C7_NameCollisionRaises ==
    /\ (ret.op = "init"
          /\ (args.anonymizer = None \/ args.manager_id_mapping = None)) =>
            (ret.err = "RuntimeError" <=> NamesCollide(league_data))
    /\ (ret.op = "init" /\ ret.err # NoError) =>
            (obj = "none" /\ _transformed = FALSE /\ PlaceholderViews)
    /\ obj = "live" =>
            \A m1 \in DOMAIN _data.managers : \A m2 \in DOMAIN _data.managers :
                m1 # m2 => _data.managers[m1].name # _data.managers[m2].name

\* C7 happens: the construction raised because the anonymizer gave one name
\* to two managers whose own names differ.
C7_Witness ==
    /\ ret.op = "init" /\ ret.err = "RuntimeError" /\ obj = "none"
    /\ args.anonymizer = "foo"
    /\ \E m1 \in DOMAIN league_data.managers : \E m2 \in DOMAIN league_data.managers :
         league_data.managers[m1].name # league_data.managers[m2].name

\* C8: a construction given both an anonymizer and a manager-id mapping
\* raises ValueError before the copy is made: no object exists, the private
\* data is still unset, and the step leaves the caller's League as it was.
C8_BothFunctionsRaise ==
    [][(ret'.op = "init" /\ args'.anonymizer # None
          /\ args'.manager_id_mapping # None) =>
            /\ ret'.err = "ValueError"
            /\ ret'.copied = FALSE
            /\ obj' = "none"
            /\ _data' = League(EmptyDict, <<>>)
            /\ league_data' = league_data]_vars

\* C8 happens: a construction with both functions has raised.
C8_Witness ==
    /\ ret.op = "init" /\ ret.err = "ValueError"
    /\ args.anonymizer = "upper" /\ args.manager_id_mapping = "suffix"
    /\ DOMAIN league_data.managers # {}

\* C9: a construction, a transform() and a read leave the caller's League
\* unchanged; a change the caller makes to its League leaves the private
\* data, the flag and the views unchanged; and the views of a successful
\* transform() are keyed by the names and the years of the League as it was
\* given, whatever the caller did to it since.
C9_InputIsolated ==
    [][/\ ret'.op \in {"init", "transform", "read"} => league_data' = league_data
       /\ ret'.op = "mutate" => UNCHANGED <<_data, _transformed, views>>
       /\ (ret'.op = "transform" /\ ret'.err = NoError) =>
            /\ DOMAIN _head_to_head'.matchups =
                 {ExpectedName(given, m) : m \in DOMAIN given.managers}
            /\ DOMAIN _games'.games =
                 {given.seasons[i].year : i \in DOMAIN given.seasons}
            /\ _data'.seasons = given.seasons]_vars

\* C9 happens: the caller changed its League after the construction and a
\* transform() then returned normally with views that hold data.
C9_Witness ==
    /\ mutated /\ league_data # given
    /\ ret.op = "transform" /\ ret.err = NoError /\ _transformed = TRUE
    /\ DOMAIN _head_to_head.matchups # {}
    /\ DOMAIN _games.games # {}

\* C10: the private copy of a Transformer has the manager ids of the League
\* it was given; each manager's name is the anonymizer's image of the input
\* name, the mapping's image of the id, or the input name when neither was
\* given; each seasons list is the input's.
C10_ManagersRenamed ==
    obj = "live" =>
        /\ DOMAIN _data.managers = DOMAIN given.managers
        /\ \A m \in DOMAIN given.managers :
             /\ _data.managers[m].name = ExpectedName(given, m)
             /\ _data.managers[m].seasons = given.managers[m].seasons

\* C10 happens: a construction with a mapping has just returned, a manager's
\* name changed and a seasons list is not empty.
C10_Witness ==
    /\ obj = "live" /\ ret.op = "init" /\ args.manager_id_mapping = "suffix"
    /\ \E m \in DOMAIN given.managers :
         /\ _data.managers[m].name # given.managers[m].name
         /\ given.managers[m].name # m
         /\ given.managers[m].seasons # <<>>

\* C11 as stated: for a season that has an entry in playoff_teams,
\* is_in_playoffs is true exactly for the managers listed in the entry, at
\* every rank.
C11_ExplicitListIsAuthoritative ==
    (playoff_query.op = "is_in_playoffs"
       /\ playoff_query.season \in DOMAIN configuration.playoff_teams) =>
        (playoff_query.result = TRUE <=>
            \E i \in DOMAIN configuration.playoff_teams[playoff_query.season] :
                configuration.playoff_teams[playoff_query.season][i]
                    = playoff_query.manager_name)

\* the cutoff that applies to a season
Cutoff(season) ==
    IF season \in DOMAIN configuration.num_playoff_teams_by_season
    THEN configuration.num_playoff_teams_by_season[season]
    ELSE configuration.num_playoff_teams

\* C12: for a season without an entry in playoff_teams, is_in_playoffs is
\* rank <= the season's own cutoff when it has one and rank <= the default
\* cutoff otherwise, whichever manager is asked about.
C12_RankCutoff ==
    (playoff_query.op = "is_in_playoffs"
       /\ playoff_query.season \notin DOMAIN configuration.playoff_teams) =>
        (playoff_query.result = TRUE <=>
            playoff_query.rank <= Cutoff(playoff_query.season))

\* C12 happens: rank 3 was asked about for 2017 under the default cutoff 4
\* and the 2017 cutoff 2, and the answer was no.
C12_Witness ==
    /\ playoff_query.op = "is_in_playoffs"
    /\ configuration.num_playoff_teams = 4
    /\ 2017 \in DOMAIN configuration.num_playoff_teams_by_season
    /\ 2017 \notin DOMAIN configuration.playoff_teams
    /\ playoff_query.season = 2017 /\ playoff_query.rank = 3
    /\ playoff_query.result = FALSE

\* C13 as stated: a set_season_data call that repeats the call before it -
\* same year, same report of the source - leaves the League as that call
\* left it.
C13_ReaggregationIdempotent ==
    [][(/\ collect_log # <<>>
        /\ collect_log' = Append(collect_log, collect_log[Len(collect_log)])
        /\ collect_log[Len(collect_log)].op = "set_season_data") =>
            collected' = collected]_vars

\* the calls made on one of the two Leagues, in order
CallsOf(op) == SelectSeq(collect_log, LAMBDA c : c.op = op)

\* the years of the calls differ from one another
DistinctYears(calls) ==
    \A i \in DOMAIN calls : \A j \in DOMAIN calls : i # j => calls[i].year # calls[j].year

\* the League holds each reported manager, with exactly the years in which
\* the manager was reported, each once
SeasonsAsReported(league, calls) ==
    /\ DOMAIN league.managers =
         UNION {DOMAIN calls[i].report.managers : i \in DOMAIN calls}
    /\ \A m \in DOMAIN league.managers :
         /\ Range(league.managers[m].seasons) =
              {calls[i].year : i \in {j \in DOMAIN calls :
                                        m \in DOMAIN calls[j].report.managers}}
         /\ Cardinality(Range(league.managers[m].seasons)) =
              Len(league.managers[m].seasons)

\* C14: when the years folded into a League differ from one another, the
\* League's managers are those the source reported and each manager's
\* seasons list holds exactly the years in which it was reported, each once;
\* for set_season_data on a shared League and for run_collector's merge.
C14_SeasonsListsAsReported ==
    /\ DistinctYears(CallsOf("set_season_data")) =>
         SeasonsAsReported(collected, CallsOf("set_season_data"))
    /\ DistinctYears(CallsOf("merge")) =>
         SeasonsAsReported(overall_league_data, CallsOf("merge"))

\* C14 happens: two years were collected into one League, one manager was
\* reported in both and another only in the second.
C14_Witness ==
    /\ Len(CallsOf("set_season_data")) = 2
    /\ DistinctYears(CallsOf("set_season_data"))
    /\ \E m1 \in DOMAIN collected.managers : \E m2 \in DOMAIN collected.managers :
         /\ Len(collected.managers[m1].seasons) = 2
         /\ Len(collected.managers[m2].seasons) = 1
         /\ collected.managers[m2].seasons[1] = CallsOf("set_season_data")[2].year

\* the second League holds every manager, season year and seasons-list year
\* of the first
GrowsFrom(before, after) ==
    /\ DOMAIN before.managers \subseteq DOMAIN after.managers
    /\ {before.seasons[i].year : i \in DOMAIN before.seasons}
         \subseteq {after.seasons[i].year : i \in DOMAIN after.seasons}
    /\ \A m \in DOMAIN before.managers :
         Range(before.managers[m].seasons) \subseteq Range(after.managers[m].seasons)

\* C15: no step of the collection removes a manager id from a League, a year
\* from its seasons or a year from a manager's seasons list, repeated years
\* included.
C15_LeagueOnlyGrows ==
    [][/\ GrowsFrom(collected, collected')
       /\ GrowsFrom(overall_league_data, overall_league_data')]_vars

\* C15 happens: a year was collected a second time into a League that holds
\* another year as well.
C15_Witness ==
    /\ Len(collect_log) = 3
    /\ \A i \in DOMAIN collect_log : collect_log[i].op = "set_season_data"
    /\ collect_log[1].year = collect_log[3].year
    /\ collect_log[2].year # collect_log[1].year
    /\ Len(collected.seasons) = 2

-----------------------------------------------------------------------------
(* Properties of the CSV exporters                                         *)

\* every (season, week, game, side, manager, opponent) of the two-sided games
PairSlots(league) ==
    UNION {UNION {UNION {UNION {
        {<<i, j, k, side, a, b>> :
            a \in DOMAIN league.seasons[i].weeks[j].games[k].team_data[side].managers,
            b \in DOMAIN league.seasons[i].weeks[j].games[k].team_data[3 - side].managers}
        : side \in IF Len(league.seasons[i].weeks[j].games[k].team_data) = 2
                   THEN {1, 2} ELSE {}}
        : k \in DOMAIN league.seasons[i].weeks[j].games}
        : j \in DOMAIN league.seasons[i].weeks}
        : i \in DOMAIN league.seasons}

\* the row a slot stands for
SlotRow(league, id_mapper, s) ==
    LET ssn == league.seasons[s[1]]
        wk == ssn.weeks[s[2]]
        mine == wk.games[s[3]].team_data[s[4]]
        theirs == wk.games[s[3]].team_data[3 - s[4]]
    IN  [manager_id |-> CallMapping(id_mapper, mine.managers[s[5]]),
         season_id |-> ssn.year,
         week_id |-> wk.week_num,
         points_for |-> mine.points,
         points_against |-> theirs.points,
         opponent_id |-> CallMapping(id_mapper, theirs.managers[s[6]]),
         result |-> IF mine.points > theirs.points THEN "win"
                    ELSE IF mine.points < theirs.points THEN "loss" ELSE "tie"]

\* the last n lines of a file
LastLines(file, n) == SubSeq(file.lines, Len(file.lines) - n + 1, Len(file.lines))

\* C16: set_games emits one row per (manager, opponent) pair across the two
\* sides of every two-sided game, in both directions, and nothing else; a
\* row carries the manager's side's points as points_for, the other side's as
\* points_against, and the result win, loss or tie of that comparison; the
\* rows written to the table are these rows.
C16_OneRowPerOrderedPair ==
    export_ret.op = "set_games" =>
        LET league == export_input.league
            id_mapper == export_input.id_mapper
            S == PairSlots(league)
            R == export_ret.rows
        IN  /\ Len(R) = Cardinality(S)
            /\ \A s \in S :
                 Count(R, SlotRow(league, id_mapper, s))
                    = Cardinality({t \in S : SlotRow(league, id_mapper, t)
                                               = SlotRow(league, id_mapper, s)})
            /\ export_ret.err = NoError =>
                 LastLines(tables["games.csv"], Len(R)) = R

\* a tie between co-managed sides and a decided game have been exported
C16_Witness ==
    /\ export_ret.op = "set_games"
    /\ export_ret.err = NoError
    /\ Len(export_ret.rows) = 6
    /\ \E i, j \in DOMAIN export_ret.rows :
         /\ export_ret.rows[i].result = "tie"
         /\ export_ret.rows[j].result = "win"
         /\ export_ret.rows[j].points_for = 100
         /\ export_ret.rows[j].points_against = 90

\* the rows an exporter computes for the League under export
RowsFor(file_name) ==
    IF file_name = "games.csv"
    THEN game_results(export_input.league.seasons, export_input.id_mapper)
    ELSE season_results(export_input.league.seasons, export_input.id_mapper)

\* k copies of a sequence
RECURSIVE Copies(_, _)
Copies(k, rows) == IF k = 0 THEN <<>> ELSE rows \o Copies(k - 1, rows)

\* a table after k runs of the same export: one header, then k copies of the rows
HeaderThenCopies(file_name) ==
    LET rows == RowsFor(file_name)
        file == tables[file_name]
    IN  /\ file.exists
        /\ file.lines # <<>>
        /\ Head(file.lines) \notin Range(rows)
        /\ Tail(file.lines) = Copies(export_runs[file_name], rows)

\* C17: running the same export k times on an initially absent table leaves
\* the table with exactly one header row followed by k copies of the rows.
C17_OneHeaderThenCopies ==
    \A f \in FileNames : export_runs[f] > 0 => HeaderThenCopies(f)

\* the same, for exports that have at least one row to write
AppendWithRowsAccumulates ==
    \A f \in FileNames :
        (export_runs[f] > 0 /\ RowsFor(f) # <<>>) => HeaderThenCopies(f)

-----------------------------------------------------------------------------
(* Properties of the player-id mapper                                      *)

\* the ids players.csv holds for a (name, position) pair
KnownIds(p_name, p_pos) ==
    {players_csv[i].player_id :
       i \in {j \in DOMAIN players_csv :
                /\ players_csv[j].player_name = p_name
                /\ players_csv[j].player_position = p_pos}}

\* C18: player_mapper returns the single known id when exactly one id is
\* known for the (name, position) pair and the input id when none or more
\* than one are known; it never returns an id that is neither the input id
\* nor a known id of the pair.
C18_SingleKnownIdOrInput ==
    player_ret.called =>
        LET known == KnownIds(player_ret.p_name, player_ret.p_pos)
        IN  /\ Cardinality(known) = 1 => player_ret.assigned_id \in known
            /\ Cardinality(known) # 1 => player_ret.assigned_id = player_ret.p_id
            /\ player_ret.assigned_id \in known \cup {player_ret.p_id}

\* an unknown id was mapped to the one known id, with another pair in the table
C18_Witness ==
    /\ player_ret.called
    /\ player_ret.p_id = "p9"
    /\ player_ret.assigned_id = "p2"
    /\ KnownIds(player_ret.p_name, player_ret.p_pos) = {"p2"}
    /\ \E n \in PlayerNames : Cardinality(KnownIds(n, "QB")) = 2

-----------------------------------------------------------------------------
(* Properties of the persisted form                                        *)

\* a dict held as a sequence of entries, as Python compares dicts: by key
AsDict(entries, KeyOf(_), ValueOf(_)) ==
    [k \in {KeyOf(entries[i]) : i \in DOMAIN entries} |->
       ValueOf(entries[CHOOSE i \in DOMAIN entries : KeyOf(entries[i]) = k])]

YearOf(e) == e.year

WeekNumOf(e) == e.week_num

MidOf(e) == e.mid

StandingValue(e) == [final_rank |-> e.final_rank, rank |-> e.rank, record |-> e.record]

WeekValue(e) == e.games

SeasonValue(e) ==
    [standings |-> AsDict(e.standings, MidOf, StandingValue),
     weeks |-> AsDict(e.weeks, WeekNumOf, WeekValue),
     league_id |-> e.league_id,
     draft_results |-> e.draft_results]

\* a League as == compares it
LeagueValue(league) ==
    [id |-> league.id, managers |-> league.managers,
     seasons |-> AsDict(league.seasons, YearOf, SeasonValue)]

-----------------------------------------------------------------------------
(* Properties of the league summary                                        *)

\* C20: after transform(), league_summary reports the totals of the League;
\* stated for seasons_played: every manager has an entry, under the name
\* the views use, that counts the seasons of that manager.
C20_SummaryReportsTotals ==
    (obj = "live" /\ _transformed = TRUE) =>
        /\ league_summary.err = NoError
        /\ \A m \in DOMAIN _data.managers :
             LET name == _data.managers[m].name
                 seasons_played == league_summary.value.seasons_played
             IN  /\ name \in DOMAIN seasons_played
                 /\ seasons_played[name] = Cardinality(Range(_data.managers[m].seasons))

\* what the code leaves in the summary: the placeholder of the constructor
SummaryStaysPlaceholder == _league_summary = EmptyLeagueSummary

-----------------------------------------------------------------------------
(* Properties of the derived views, continued                              *)

\* C22: after transform() on a well-formed League, each manager with a
\* standing in a season has a season entry under the manager's name whose
\* madePlayoffs is is_in_playoffs for the name, the year and the standing's
\* rank and whose regular-season standing is the standing's rank.
C22_SeasonEntriesFromStandings ==
    (obj = "live" /\ ret.op = "transform" /\ WellFormed(given)
        /\ IdsInGames(_data) \subseteq ManagerNames(_data)) =>
        /\ ret.err = NoError
        /\ \A i \in DOMAIN _data.seasons :
             \A st \in Range(_data.seasons[i].standings) :
               LET name == _data.managers[st.mid].name
                   year == _data.seasons[i].year
                   ms == _managers.managers
               IN  /\ name \in DOMAIN ms
                   /\ year \in DOMAIN ms[name].seasons
                   /\ ms[name].seasons[year].madePlayoffs
                        = is_in_playoffs(TransformerConfig, name, st.rank, year)
                   /\ ms[name].seasons[year].regularSeasonStanding = st.rank

\* the (year, week) of a slot of PairSlots and the names of its two managers
SlotMeeting(d, s) ==
    LET ssn == d.seasons[s[1]]
        wk == ssn.weeks[s[2]]
        g == wk.games[s[3]]
    IN  [year_week |-> <<ssn.year, wk.week_num>>,
         A |-> d.managers[g.team_data[s[4]].managers[s[5]]].name,
         B |-> d.managers[g.team_data[3 - s[4]].managers[s[6]]].name]

\* C23: after a successful transform(), matchups has an entry for every
\* ordered pair of manager names, and matchups[A][B] holds (year, week) once
\* for each game of that week with A on one side and B on the other, and
\* nothing else.
C23_MatchupsCountMeetings ==
    (obj = "live" /\ _transformed = TRUE) =>
        LET mu == _head_to_head.matchups
            N == ManagerNames(_data)
            S == PairSlots(_data)
        IN  /\ DOMAIN mu = N
            /\ \A A \in N :
                 /\ DOMAIN mu[A] = N
                 /\ \A B \in N :
                      \A yw \in Range(mu[A][B])
                                  \cup {SlotMeeting(_data, s).year_week : s \in S} :
                        Count(mu[A][B], yw)
                           = Cardinality({s \in S :
                                SlotMeeting(_data, s) = [year_week |-> yw, A |-> A, B |-> B]})

\* C26: after a successful transform(), every game of every week of the
\* League is in the Games view under its year and week, with the ids of its
\* sides translated to names.
C26_NoGameLost ==
    (obj = "live" /\ _transformed = TRUE) =>
        \A i \in DOMAIN _data.seasons :
          \A j \in DOMAIN _data.seasons[i].weeks :
            \A k \in DOMAIN _data.seasons[i].weeks[j].games :
              LET year == _data.seasons[i].year
                  week_num == _data.seasons[i].weeks[j].week_num
              IN  /\ year \in DOMAIN _games.games
                  /\ week_num \in DOMAIN _games.games[year]
                  /\ _games.games[year][week_num]
                       = GameWithNames(_data, _data.seasons[i].weeks[j].games[k]).game

-----------------------------------------------------------------------------
(* Properties of the managers, players and drafts tables                   *)

\* the ids of a sequence of managers.csv rows
IdsOf(rows) == {rows[i].manager_id : i \in DOMAIN rows}

\* managers.csv has its header first and no second row for any id
OneHeaderOneRowPerId ==
    LET file == tables["managers.csv"]
        rows == DictReader(file)
    IN  file.exists =>
          /\ file.lines # <<>>
          /\ Head(file.lines) = HeaderLine({"manager_id", "manager_name"})
          /\ \A i \in DOMAIN rows : "manager_name" \in DOMAIN rows[i]
          /\ \A i, j \in DOMAIN rows : rows[i].manager_id = rows[j].manager_id => i = j

\* a set_managers run gives each id of the run the name the run has for it
\* last, and keeps the rows of all other ids
LatestNameWins ==
    (export_runs'["managers.csv"] # export_runs["managers.csv"]) =>
        LET old == DictReader(tables["managers.csv"])
            new == DictReader(tables'["managers.csv"])
            run == export_ret'.rows
        IN  /\ IdsOf(new) = IdsOf(old) \cup IdsOf(run)
            /\ \A i \in DOMAIN run :
                 (\A j \in DOMAIN run : j > i => run[j].manager_id # run[i].manager_id)
                    => run[i] \in Range(new)
            /\ \A r \in Range(old) : r.manager_id \notin IdsOf(run) => r \in Range(new)

\* C21: after any sequence of set_managers runs the table has one header row
\* and at most one row per mapped manager id; an id of the latest run has the
\* name that run gave it, and the row of an id that the run does not contain
\* stays.
C21_OneRowPerManagerId == []OneHeaderOneRowPerId /\ [][LatestNameWins]_vars

\* a second run has renamed manager 1 and kept a manager of the first run only
C21_Witness ==
    /\ export_runs["managers.csv"] = 2
    /\ ManagerLine("1", "Alicia") \in Range(tables["managers.csv"].lines)
    /\ ManagerLine("3", "Carol") \in Range(tables["managers.csv"].lines)
    /\ ManagerLine("2", "Rob") \in Range(tables["managers.csv"].lines)
    /\ export_ret.op = "set_managers"
    /\ Len(export_ret.rows) = 2

\* C27: after set_players with deduplicate false, every (id, name, position)
\* of the League's starters and benches has its row in the players table.
C27_EveryPlayerKeepsItsId ==
    (export_ret.op = "set_players" /\ ~export_ret.deduplicate) =>
        \A i \in DOMAIN export_ret.rows :
            PlayerRow(export_ret.rows[i].id, export_ret.rows[i].name,
                      export_ret.rows[i].position)
                \in Range(tables["players.csv"].lines)

\* the picks of the League given to set_drafts: (draft index, pick index)
PickSlots(league) ==
    IF league.seasons = <<>> THEN {}
    ELSE IF league.seasons[1].draft_results = Unknown THEN {}
    ELSE LET drafts == league.seasons[1].draft_results[1].drafts
         IN  UNION {{<<d, k>> : k \in DOMAIN drafts[d]} : d \in DOMAIN drafts}

\* C25: set_drafts emits one row per pick of every draft, with the draft
\* index, the season, the pick's round, slot, overall pick and position and
\* the mapped manager id, and appends them to the table; without any pick it
\* writes nothing and creates no table.
C25_OneRowPerPick ==
    export_ret.op = "set_drafts" =>
        LET league == export_input.league
            S == PickSlots(league)
            R == export_ret.rows
        IN  /\ export_ret.err = NoError
            /\ Len(R) = Cardinality(S)
            /\ \A s \in S :
                 LET pick == league.seasons[1].draft_results[1].drafts[s[1]][s[2]]
                 IN  \E i \in DOMAIN R :
                       /\ R[i].draft_idx = s[1] - 1
                       /\ R[i].season_id = league.seasons[1].year
                       /\ R[i].round = pick.round
                       /\ R[i].round_slot = pick.round_slot
                       /\ R[i].overall_pick = pick.overall_pick
                       /\ R[i].player_position = pick.player_position
                       /\ R[i].manager_id = CallMapping(export_input.id_mapper, pick.manager_id)
            /\ S # {} => LastLines(tables["drafts.csv"], Len(R)) = R
            /\ tables["drafts.csv"].exists => tables["drafts.csv"].lines # <<>>

\* what does hold of set_drafts: without picks it returns normally and
\* leaves the table alone, and no run ever creates the table
DraftsTableNeverWritten ==
    /\ ~tables["drafts.csv"].exists
    /\ (export_ret.op = "set_drafts" /\ PickSlots(export_input.league) = {})
          => export_ret.err = NoError

\* C28: a set_games or set_season run without rows returns normally, and no
\* sequence of runs leaves a table that does not start with its header row.
C28_EmptyExportLeavesTableAlone ==
    /\ (export_ret.op \in {"set_games", "set_season"} /\ export_ret.rows = <<>>)
          => export_ret.err = NoError
    /\ \A f \in {"games.csv", "seasons.csv"} :
         tables[f].exists =>
            /\ tables[f].lines # <<>>
            /\ "fieldnames" \in DOMAIN Head(tables[f].lines)

-----------------------------------------------------------------------------
\* the matchups of rounds 1..r that are valid: those of round 1, and those
\* whose participants, where they come out of an earlier matchup, are all
\* winners of valid matchups of the rounds before
RECURSIVE ValidUpTo(_, _)
ValidUpTo(data, r) ==
    IF r = 0 THEN {}
    ELSE LET before == ValidUpTo(data, r - 1)
             Winner(t_from) == t_from = Unknown
                                 \/ (t_from[1].key = "w" /\ t_from[1].m \in {x.m : x \in before})
         IN before \cup {x \in Range(data) :
                            /\ x.r = r
                            /\ r = 1 \/ (Winner(x.t1_from) /\ Winner(x.t2_from))}

\* the valid matchups of the last round of the bracket
ValidFinals ==
    LET data == playoffs_input.playoffs_data
        last == CHOOSE r \in {x.r : x \in Range(data)} : \A x \in Range(data) : x.r <= r
    IN {x \in ValidUpTo(data, last) : x.r = last}

\* C24: _get_final_standings never picks a champion arbitrarily.  With more
\* than one valid matchup in the last round of the bracket it raises; with
\* exactly one, the managers of that matchup's winning team have final rank
\* 1, the managers of its losing team final rank 2, and nobody else is ranked.
C24_ChampionNeverArbitrary ==
    standings_ret.called =>
        /\ Cardinality(ValidFinals) > 1 =>
               /\ standings_ret.err = "ValueError"
               /\ standings_ret.final_standings = EmptyDict
        /\ Cardinality(ValidFinals) = 1 =>
               LET final == CHOOSE x \in ValidFinals : TRUE
                   team_to_manager == playoffs_input.team_to_manager
                   ranked == standings_ret.final_standings
               IN /\ standings_ret.err = NoError
                  /\ DOMAIN ranked = Range(team_to_manager[final.w])
                                         \cup Range(team_to_manager[final.l])
                  /\ \A manager_id \in Range(team_to_manager[final.w]) : ranked[manager_id] = 1
                  /\ \A manager_id \in Range(team_to_manager[final.l]) : ranked[manager_id] = 2

\* a bracket whose last round has two valid matchups was refused
C24_Witness ==
    /\ standings_ret.called
    /\ Cardinality(ValidFinals) = 2
    /\ standings_ret.err = "ValueError"

-----------------------------------------------------------------------------
\* C29: every Game that _get_games_for_week builds has exactly two sides, and
\* every team-week entry is a side of exactly one Game; entries with a null
\* matchup id are not put together into a one-sided or many-sided Game.
C29_EveryGameHasTwoSides ==
    week_ret.called =>
        LET week_data == week_input.week_data
            built == week_ret.games
            Sides(t) == {p \in {<<i, j>> : i \in DOMAIN built, j \in 1..MaxTeams} :
                            /\ p[2] \in DOMAIN built[p[1]].team_data
                            /\ built[p[1]].team_data[p[2]] =
                                   SleeperTeamData(week_data[t], week_input.team_to_manager)}
        IN /\ \A i \in DOMAIN built : Len(built[i].team_data) = 2
           /\ \A t \in DOMAIN week_data : Cardinality(Sides(t)) = 1

\* entries are never lost or duplicated: the sides of the Games of a week are
\* the entries of the week, and entries with the same matchup id share a Game
WeekGroupsByMatchupId ==
    week_ret.called =>
        LET week_data == week_input.week_data
            built == week_ret.games
        IN /\ Len(Concat([i \in DOMAIN built |-> built[i].team_data])) = Len(week_data)
           /\ \A t \in DOMAIN week_data :
                  \E i \in DOMAIN built :
                      built[i].team_data =
                          [j \in 1..Cardinality({u \in DOMAIN week_data :
                                      week_data[u].matchup_id = week_data[t].matchup_id}) |->
                              SleeperTeamData(
                                  SelectSeq(week_data,
                                      LAMBDA e : e.matchup_id = week_data[t].matchup_id)[j],
                                  week_input.team_to_manager)]

-----------------------------------------------------------------------------
\* the league data pages: the seasons list, the standings, a team's home, the
\* schedule and a matchup
DataPages == {"history", "finalstandings", "regularseason", "team", "schedule", "matchup"}

\* the page changes in which a login succeeded: the league page was asked for
\* after the click on "Sign In", and the driver ended on it
Logins ==
    {i \in DOMAIN driver : /\ driver[i] = Page("league", "league")
                            /\ i > 1
                            /\ driver[i - 1].url = "click"}

\* C30: the NFL collector requests no league data page before a login has
\* succeeded.  Every data page in the driver's history comes after a
\* successful login; the flag is true only when a login has passed its URL
\* check; a call whose login failed raised, requested no data page and left
\* the flag false; a call made without the flag signs in before anything
\* else; and once a login has succeeded no sign-in page is requested again.
C30_NoDataPageBeforeLogin ==
    /\ \A i \in DOMAIN driver :
           driver[i].url \in DataPages => \E j \in Logins : j < i
    /\ _logged_in => Logins # {}
    /\ site \in Outcomes \ {"up"} =>
           /\ nfl_ret.err \in {"RuntimeError", "NoSuchElementException"}
           /\ ~_logged_in
           /\ driver[Len(driver)].url \notin DataPages
    /\ site = "up" => _logged_in
    /\ nfl_ret.calls > 0 /\ Logins = {} => site \in Outcomes \ {"up"}
    /\ \A j \in Logins : \A i \in DOMAIN driver :
           i > j => driver[i].url \notin {"account/sign-in", "click", "league"}
    /\ Cardinality(Logins) <= 1

\* a login failed on the URL check, the next call logged in and read the
\* seasons list, and a third call collected a season without signing in
C30_Witness ==
    /\ nfl_ret.calls = 3
    /\ nfl_ret.op = "set_season_data"
    /\ nfl_ret.err = NoError
    /\ site = "none"
    /\ Logins = {6}
    /\ driver[3] = Page("league", "account/sign-in")
    /\ driver[7].url = "history"
    /\ Len(driver) = 15

====
